---- MODULE Spec2Model ----
(***************************************************************************)
(* Caching tier of the password-generator backend: the Redis wrapper       *)
(* (config/redis.ts), the cache-aside middleware and clearCache             *)
(* (middleware/cache.middleware.ts), the router that wraps the read routes  *)
(* and the controller handlers (controllers/password.controller.ts).       *)
(*                                                                         *)
(* A request is a little process: every action below is one continuation   *)
(* of an async handler, from the reply of the call it awaited up to the     *)
(* next await.  A Redis command takes effect when it is issued (one         *)
(* connection, commands are served in the order they are sent), so the      *)
(* fire-and-forget SETEX of the middleware is part of the step that sends   *)
(* the response.                                                            *)
(***************************************************************************)
EXTENDS Integers, Sequences, FiniteSets, TLC

VARIABLES db, nextId, store, isConnected, now, req, last, nOps, call

vars == <<db, nextId, store, isConnected, now, req, last, nOps, call>>

---------------------------------------------------------------------------
(* Bounds of the model. *)
MaxRecords == 2
MaxOps == 3
MaxTicks == 1
TickSeconds == 150
MaxCount == 2
StaleStep == 100
MaxStaleSteps == 5

(* Program constants. *)
MwTtlHistory == 300
MwTtlStats == 120
CtrlTtlHistory == 300
CtrlTtlStats == 120
DefaultLimit == 20
DefaultPage == 1
MinLength == 4
MaxLength == 64
DefaultLength == 12
DaySeconds == 86400

WeakBelow == 40
MediumBelow == 60

(* null, and a value read back from the server. *)
None == [nil |-> TRUE]
Some(v) == [nil |-> FALSE, v |-> v]
NoExpiry == -1

Min(a, b) == IF a < b THEN a ELSE b

---------------------------------------------------------------------------
(* Keys and glob patterns.  A key is the sequence of its ':'-separated      *)
(* segments; a pattern is a key whose last segment may be "*".             *)

RECURSIVE GlobMatch(_, _)
GlobMatch(pattern, key) ==
    IF pattern = <<>> THEN key = <<>>
    ELSE IF pattern = <<"*">> THEN TRUE
    ELSE /\ key # <<>>
         /\ Head(pattern) = Head(key)
         /\ GlobMatch(Tail(pattern), Tail(key))

CountKey == <<"password", "generation", "count">>
TodayKey == <<"password", "generation", "today">>
StatsAllKey == <<"stats", "all">>

(* The cache counters getCacheStats reads and resetCacheStats deletes. *)
TotalRequestsKey == <<"stats", "total", "requests">>
HitsKey == <<"stats", "cache", "hits">>
MissesKey == <<"stats", "cache", "misses">>

(* req.originalUrl: the mount path, the route path and the query string    *)
(* as the client sent it, parameters in their order of arrival.            *)
RECURSIVE QueryString(_)
QueryString(q) ==
    IF q = <<>> THEN ""
    ELSE q[1][1] \o "=" \o ToString(q[1][2])
         \o (IF Len(q) > 1 THEN "&" \o QueryString(Tail(q)) ELSE "")

OriginalUrl(route, q) ==
    "/api/passwords/" \o route \o (IF q = <<>> THEN "" ELSE "?" \o QueryString(q))

(* cacheMiddleware: `${keyPrefix}:${req.originalUrl}` *)
MwKey(route, q) == <<"cache", OriginalUrl(route, q)>>

(* req.query.<name>, or the default of the destructuring. *)
QueryParam(q, name, default) ==
    IF \E i \in 1..Len(q) : q[i][1] = name
    THEN q[CHOOSE i \in 1..Len(q) : q[i][1] = name][2]
    ELSE default

QLimit(q) == QueryParam(q, "limit", DefaultLimit)
QPage(q) == QueryParam(q, "page", DefaultPage)

(* getHistory: `history:${limit}:${page}`; getStats: 'stats:all' *)
CtrlKey(route, q) ==
    IF route = "history"
    THEN <<"history", ToString(QLimit(q)), ToString(QPage(q))>>
    ELSE StatsAllKey

MwTtl(route) == IF route = "history" THEN MwTtlHistory ELSE MwTtlStats
CtrlTtl(route) == IF route = "history" THEN CtrlTtlHistory ELSE CtrlTtlStats

---------------------------------------------------------------------------
(* Payloads are JSON objects: functions from field names to values.        *)

(* { ...cachedData, cached: true } *)
AddCached(p) ==
    [k \in DOMAIN p \cup {"cached"} |-> IF k = "cached" THEN TRUE ELSE p[k]]

HasCached(p) == "cached" \in DOMAIN p

(* JSON.stringify / JSON.parse: the stored text of a value.  INCR keeps a  *)
(* counter as the decimal text of an integer, which JSON.parse reads as a  *)
(* number.                                                                 *)
Stringify(v) == <<"json", v>>
IntText(n) == <<"int", n>>
Parse(text) == text[2]

---------------------------------------------------------------------------
(* RedisClient helper methods (config/redis.ts).  s is the keyspace of the *)
(* server: key -> [val, exp]; conn is this.isConnected at the call; ok is  *)
(* whether the underlying client call succeeds; t is the server's time.    *)
(* Each returns [store, res, threw].                                       *)

Has(s, key) == key \in DOMAIN s

Put(s, key, entry) ==
    [k \in DOMAIN s \cup {key} |-> IF k = key THEN entry ELSE s[k]]

Drop(s, keys) == [k \in DOMAIN s \ keys |-> s[k]]

RedisGet(s, key, conn, ok) ==
    IF ~conn THEN [store |-> s, res |-> None, threw |-> FALSE]
    ELSE IF ~ok THEN [store |-> s, res |-> None, threw |-> FALSE]
    ELSE [store |-> s,
          res |-> IF Has(s, key) THEN Some(Parse(s[key].val)) ELSE None,
          threw |-> FALSE]

(* A set that is acknowledged and never stored. *)
RedisSetLost(s, key, value, ttl, t, conn, ok) ==
    [store |-> s, res |-> None, threw |-> FALSE]

(* set() that stores the value without an expiry *)
RedisSetForever(s, key, value, ttl, t, conn, ok) ==
    IF ~conn THEN [store |-> s, res |-> None, threw |-> FALSE]
    ELSE IF ~ok THEN [store |-> s, res |-> None, threw |-> FALSE]
    ELSE [store |-> Put(s, key, [val |-> Stringify(value), exp |-> NoExpiry]),
          res |-> None, threw |-> FALSE]

RedisSet(s, key, value, ttl, t, conn, ok) ==
    IF ~conn THEN [store |-> s, res |-> None, threw |-> FALSE]
    ELSE IF ~ok THEN [store |-> s, res |-> None, threw |-> FALSE]
    ELSE [store |-> Put(s, key, [val |-> Stringify(value), exp |-> t + ttl]),
          res |-> None, threw |-> FALSE]

RedisDel(s, key, conn, ok) ==
    IF ~conn THEN [store |-> s, res |-> None, threw |-> FALSE]
    ELSE IF ~ok THEN [store |-> s, res |-> None, threw |-> FALSE]
    ELSE [store |-> Drop(s, {key}), res |-> None, threw |-> FALSE]

(* delPattern, first await: client.keys(pattern) *)
RedisKeys(s, pattern, conn, ok) ==
    IF ~conn THEN [store |-> s, res |-> {}, threw |-> FALSE]
    ELSE IF ~ok THEN [store |-> s, res |-> {}, threw |-> FALSE]
    ELSE [store |-> s,
          res |-> {k \in DOMAIN s : GlobMatch(pattern, k)},
          threw |-> FALSE]

(* delPattern, second await: client.del(keys), sent when keys.length > 0 *)
RedisDelKeys(s, keys, ok) ==
    IF keys = {} THEN [store |-> s, res |-> None, threw |-> FALSE]
    ELSE IF ~ok THEN [store |-> s, res |-> None, threw |-> FALSE]
    ELSE [store |-> Drop(s, keys), res |-> None, threw |-> FALSE]

(* delPattern as one call: the keys, then their deletion. *)
DelPattern(s, pattern, conn, ok1, ok2) ==
    RedisDelKeys(s, RedisKeys(s, pattern, conn, ok1).res, ok2)

RedisExists(s, key, conn, ok) ==
    IF ~conn THEN [store |-> s, res |-> FALSE, threw |-> FALSE]
    ELSE IF ~ok THEN [store |-> s, res |-> FALSE, threw |-> FALSE]
    ELSE [store |-> s, res |-> Has(s, key), threw |-> FALSE]

(* An incr that writes 1 whatever the key holds: what a read of the value *)
(* followed by a write of value + 1 does when two callers read first.     *)
RedisIncrOverwrites(s, key, conn, ok) ==
    IF ~conn THEN [store |-> s, res |-> 0, threw |-> FALSE]
    ELSE IF ~ok THEN [store |-> s, res |-> 0, threw |-> FALSE]
    ELSE [store |-> Put(s, key, [val |-> IntText(1), exp |-> NoExpiry]),
          res |-> 1, threw |-> FALSE]

(* incr without its try/catch: a failed client call raises to the caller. *)
RedisIncrRaises(s, key, conn, ok) ==
    IF ~conn THEN [store |-> s, res |-> 0, threw |-> FALSE]
    ELSE IF ~ok THEN [store |-> s, res |-> 0, threw |-> TRUE]
    ELSE LET n == IF Has(s, key) THEN Parse(s[key].val) + 1 ELSE 1
             e == IF Has(s, key) THEN s[key].exp ELSE NoExpiry
         IN [store |-> Put(s, key, [val |-> IntText(n), exp |-> e]),
             res |-> n, threw |-> FALSE]

RedisIncr(s, key, conn, ok) ==
    IF ~conn THEN [store |-> s, res |-> 0, threw |-> FALSE]
    ELSE IF ~ok THEN [store |-> s, res |-> 0, threw |-> FALSE]
    ELSE LET n == IF Has(s, key) THEN Parse(s[key].val) + 1 ELSE 1
             e == IF Has(s, key) THEN s[key].exp ELSE NoExpiry
         IN [store |-> Put(s, key, [val |-> IntText(n), exp |-> e]),
             res |-> n, threw |-> FALSE]

(* TTL of the server: -2 for an absent key, -1 for a key with no expiry. *)
RedisTtl(s, key, t, conn, ok) ==
    IF ~conn THEN [store |-> s, res |-> -1, threw |-> FALSE]
    ELSE IF ~ok THEN [store |-> s, res |-> -1, threw |-> FALSE]
    ELSE [store |-> s,
          res |-> IF ~Has(s, key) THEN -2
                  ELSE IF s[key].exp = NoExpiry THEN -1
                  ELSE s[key].exp - t,
          threw |-> FALSE]

(* redisClient.getClient().expire(key, seconds): the raw client, outside   *)
(* the wrapper's try/catch, so a failed call raises to the caller.         *)
ClientExpire(s, key, seconds, t, ok) ==
    IF ~ok THEN [store |-> s, res |-> None, threw |-> TRUE]
    ELSE IF ~Has(s, key) THEN [store |-> s, res |-> None, threw |-> FALSE]
    ELSE IF seconds <= 0 THEN [store |-> Drop(s, {key}), res |-> None, threw |-> FALSE]
    ELSE [store |-> Put(s, key, [val |-> s[key].val, exp |-> t + seconds]),
          res |-> None, threw |-> FALSE]

(* redisClient.getClient().keys(pattern): the raw client again. *)
ClientKeys(s, pattern, ok) ==
    IF ~ok THEN [store |-> s, res |-> {}, threw |-> TRUE]
    ELSE [store |-> s, res |-> {k \in DOMAIN s : GlobMatch(pattern, k)},
          threw |-> FALSE]

(* await redisClient.get(key) || 0 *)
ReadCounter(s, key, conn, ok) ==
    LET g == RedisGet(s, key, conn, ok).res
    IN IF g.nil THEN 0 ELSE g.v

(* Number(await redisClient.get(key) || 0), the client call succeeding. *)
CounterValue(s, key) == IF Has(s, key) THEN Parse(s[key].val) ELSE 0

(* Keys whose expiry has passed are gone. *)
Purge(s, t) ==
    [k \in {x \in DOMAIN s : s[x].exp = NoExpiry \/ s[x].exp > t} |-> s[k]]

---------------------------------------------------------------------------
(* The record store (Mongo collection Password), newest record first.      *)

Ids(d) == {d[i].id : i \in 1..Len(d)}

(* Password.find().sort({createdAt: -1}).limit(limit).skip(skip) *)
FindPage(d, limit, page) ==
    LET skip == (page - 1) * limit
    IN SubSeq(d, skip + 1, Min(skip + limit, Len(d)))

CeilDiv(a, b) == (a + b - 1) \div b

(* getHistory: the response object built from find() and countDocuments() *)
HistoryBody(docs, total, q) ==
    [success |-> TRUE,
     data |-> docs,
     pagination |-> [total |-> total, page |-> QPage(q), limit |-> QLimit(q),
                     totalPages |-> CeilDiv(total, QLimit(q))]]

(* The $group stage over every record: minLength and maxLength (`|| 0`     *)
(* when the collection is empty).                                          *)
Aggregate(d) ==
    IF d = <<>> THEN [minLength |-> 0, maxLength |-> 0]
    ELSE [minLength |-> CHOOSE m \in {d[i].length : i \in 1..Len(d)} :
                            \A i \in 1..Len(d) : m <= d[i].length,
          maxLength |-> CHOOSE m \in {d[i].length : i \in 1..Len(d)} :
                            \A i \in 1..Len(d) : m >= d[i].length]

(* getStats: the response object built from countDocuments() and aggregate() *)
StatsBody(total, agg) ==
    [success |-> TRUE,
     data |-> [totalGenerated |-> total,
               minLength |-> agg.minLength,
               maxLength |-> agg.maxLength]]

ErrorBody(msg) == [success |-> FALSE, error |-> msg]

(* What a read of the record store answers for a view, in one snapshot. *)
FreshBody(d, route, q) ==
    IF route = "history"
    THEN HistoryBody(FindPage(d, QLimit(q), QPage(q)), Len(d), q)
    ELSE StatsBody(Len(d), Aggregate(d))

---------------------------------------------------------------------------
(* Requests. *)

Slots == {1}

Routes == {"history", "stats"}

(* Query strings a client sends to GET /history: the same two parameters   *)
(* with the same values, in the two orders.                                *)
Queries ==
    { << <<"limit", 1>>, <<"page", 2>> >>,
      << <<"page", 2>>, <<"limit", 1>> >> }

RouteQueries(route) == IF route = "history" THEN Queries ELSE {<<>>}

(* A JSON value posted as length: a whole number n, the number n + 1/2,   *)
(* or the string that spells n.                                            *)
Whole(n) == [type |-> "number", n |-> n, frac |-> FALSE]

Half(n) == [type |-> "number", n |-> n, frac |-> TRUE]

Text(n) == [type |-> "string", n |-> n, frac |-> FALSE]

(* Number.isInteger *)
IsInteger(x) == x.type = "number" /\ ~x.frac

Flags == {"upper", "lower", "numbers", "symbols"}

(* Bodies a client posts to /generate: the length, and the option flags    *)
(* that are on once the handler has filled in its defaults.                *)
GenBodies ==
    { [length |-> Whole(DefaultLength), options |-> {"upper", "lower", "numbers"}],
      [length |-> Whole(DefaultLength), options |-> {}] }

(* validateOptions without the upper bound on the length *)
ValidateOptionsNoUpper(length, options) ==
    IF ~IsInteger(length)
    THEN [valid |-> FALSE, error |-> "Length must be an integer"]
    ELSE IF length.n < MinLength
    THEN [valid |-> FALSE, error |-> "Length must be between 4 and 64"]
    ELSE IF ~("upper" \in options) /\ ~("lower" \in options)
            /\ ~("numbers" \in options) /\ ~("symbols" \in options)
    THEN [valid |-> FALSE, error |-> "At least one character type must be selected"]
    ELSE [valid |-> TRUE, error |-> ""]

(* passwordService.validateOptions *)
ValidateOptions(length, options) ==
    IF ~IsInteger(length)
    THEN [valid |-> FALSE, error |-> "Length must be an integer"]
    ELSE IF length.n < MinLength \/ length.n > MaxLength
    THEN [valid |-> FALSE, error |-> "Length must be between 4 and 64"]
    ELSE IF ~("upper" \in options) /\ ~("lower" \in options)
            /\ ~("numbers" \in options) /\ ~("symbols" \in options)
    THEN [valid |-> FALSE, error |-> "At least one character type must be selected"]
    ELSE [valid |-> TRUE, error |-> ""]

Idle ==
    [kind |-> "none", pc |-> "idle", route |-> "", query |-> <<>>, id |-> 0,
     wrapped |-> FALSE, got |-> None, docs |-> <<>>, total |-> 0, agg |-> None,
     out |-> None,
     pats |-> <<>>, keys |-> {}, dbErr |-> FALSE, threw |-> FALSE,
     status |-> 0, resp |-> None,
     (* history of the request, for the properties *)
     mwGot |-> None, handler |-> FALSE, ctrlHit |-> FALSE, hout |-> None,
     dbRead |-> FALSE, dbFail |-> FALSE, mwSet |-> FALSE,
     mwKey |-> <<>>, found |-> FALSE, cleared |-> {},
     sawReady |-> FALSE, sawDown |-> FALSE, expired |-> FALSE]

(* The request record with some fields replaced. *)
With(rq, f) == f @@ rq

(* A look at the readiness flag, and a client command sent with outcome ok. *)
Looked(rq, conn) ==
    [sawReady |-> rq.sawReady \/ conn, sawDown |-> rq.sawDown \/ ~conn]

Sent(rq, conn, ok) ==
    [sawReady |-> rq.sawReady \/ conn,
     sawDown |-> rq.sawDown \/ ~conn \/ ~ok]

---------------------------------------------------------------------------
(* Sending the response. *)

(* A replacement of res.json that writes the body whatever the status. *)
WrappedJsonAnyStatus(rq, status, body, s, t, conn, ok) ==
    [store |-> RedisSet(s, MwKey(rq.route, rq.query), body,
                        MwTtl(rq.route), t, conn, ok).store,
     wrote |-> TRUE, body |-> body]

(* A replacement of res.json that marks what it sends as cached. *)
WrappedJsonMarked(rq, status, body, s, t, conn, ok) ==
    IF status = 200
    THEN [store |-> RedisSet(s, MwKey(rq.route, rq.query), body,
                             MwTtl(rq.route), t, conn, ok).store,
          wrote |-> TRUE, body |-> AddCached(body)]
    ELSE [store |-> s, wrote |-> FALSE, body |-> body]

(* A replacement of res.json that leaves the write to the first of the    *)
(* requests racing on the key: it writes only while the key is absent.     *)
WrappedJsonFirstOnly(rq, status, body, s, t, conn, ok) ==
    IF status = 200 /\ ~Has(s, MwKey(rq.route, rq.query))
    THEN [store |-> RedisSet(s, MwKey(rq.route, rq.query), body,
                             MwTtl(rq.route), t, conn, ok).store,
          wrote |-> TRUE, body |-> body]
    ELSE [store |-> s, wrote |-> FALSE, body |-> body]

(* cacheMiddleware's replacement of res.json, installed on a miss: a 200   *)
(* body is written to the cache, not awaited, and the body goes out as the *)
(* handler gave it.                                                        *)
WrappedJson(rq, status, body, s, t, conn, ok) ==
    IF status = 200
    THEN [store |-> RedisSet(s, MwKey(rq.route, rq.query), body,
                             MwTtl(rq.route), t, conn, ok).store,
          wrote |-> TRUE, body |-> body]
    ELSE [store |-> s, wrote |-> FALSE, body |-> body]

(* res.status(status).json(body) as the handler calls it. *)
ResJson(rq, status, body, s, t, conn, ok) ==
    IF rq.wrapped
    THEN WrappedJson(rq, status, body, s, t, conn, ok)
    ELSE [store |-> s, wrote |-> FALSE, body |-> body]

(* The request once its response is out: the locals are gone. *)
Done(rq, status, sentBody) ==
    With(rq, [pc |-> "done", status |-> status, resp |-> Some(sentBody),
              got |-> None, docs |-> <<>>, total |-> 0, agg |-> None,
              out |-> None, pats |-> <<>>, keys |-> {}, dbErr |-> FALSE, threw |-> FALSE])

(* The handler responds: [rq, store]. *)
HandlerResponds(rq, status, body, s, t, conn, ok) ==
    LET j == ResJson(rq, status, body, s, t, conn, ok)
        g == IF j.wrote THEN With(rq, Sent(rq, conn, ok)) ELSE rq
    IN [rq |-> Done(With(g, [hout |-> Some(body), mwSet |-> j.wrote]),
                    status, j.body),
        store |-> j.store]

---------------------------------------------------------------------------
(* The read handlers: getHistory and getStats. *)

(* First read of the record store: find() of the page for the history,     *)
(* countDocuments() for the statistics.                                    *)
IssueRead1(rq, d, dbok) ==
    With(rq, [pc |-> "c_find", dbRead |-> TRUE, dbErr |-> ~dbok,
              dbFail |-> rq.dbFail \/ ~dbok,
              docs |-> IF dbok /\ rq.route = "history"
                       THEN FindPage(d, QLimit(rq.query), QPage(rq.query))
                       ELSE <<>>,
              total |-> IF dbok /\ rq.route = "stats" THEN Len(d) ELSE 0])

(* Second read: countDocuments() for the history, aggregate() for the      *)
(* statistics.                                                             *)
IssueRead2(rq, d, dbok) ==
    With(rq, [pc |-> "c_count", dbErr |-> ~dbok,
              dbFail |-> rq.dbFail \/ ~dbok,
              total |-> IF dbok /\ rq.route = "history" THEN Len(d) ELSE rq.total,
              agg |-> IF dbok /\ rq.route = "stats"
                      THEN Some(Aggregate(d)) ELSE None])

(* The handler is entered: with the store ready it asks for its own key,   *)
(* otherwise it goes to the record store.                                  *)
CtrlEnter(rq, s, d, conn, ok, dbok) ==
    LET h == With(rq, [handler |-> TRUE])
    IN IF conn
       THEN With(h, [pc |-> "c_get",
                     got |-> RedisGet(s, CtrlKey(rq.route, rq.query), conn, ok).res]
                    @@ Sent(h, conn, ok))
       ELSE IssueRead1(With(h, Looked(h, conn)), d, dbok)

ReadErrorMsg(route) ==
    IF route = "history" THEN "Failed to fetch history"
    ELSE "Failed to fetch statistics"

---------------------------------------------------------------------------
(* Actions.  A client sends its next request once the previous one is      *)
(* answered; the answered request is kept in last.                         *)

Free(r) == req[r].pc \in {"idle", "done"} /\ nOps < MaxOps

NoCall == [op |-> "none"]

(* What is kept of an answered request. *)
Answered(rq) ==
    [kind |-> rq.kind, route |-> rq.route, query |-> rq.query,
     status |-> rq.status, resp |-> rq.resp, mwKey |-> rq.mwKey,
     sawDown |-> rq.sawDown, expired |-> rq.expired,
     hit |-> ~rq.mwGot.nil]

Retire(r) ==
    /\ last' = IF req[r].pc = "done" THEN Answered(req[r]) ELSE last
    /\ nOps' = nOps + 1

Fresh(kind) == With(Idle, [kind |-> kind])

(* GET /history or /stats arrives at cacheMiddleware. *)
GetArrive(r, route, q) ==
    /\ Free(r)
    /\ Retire(r)
    /\ \E ok \in BOOLEAN, dbok \in BOOLEAN :
         LET rq == With(Fresh("get"), [route |-> route, query |-> q])
         IN req' = [req EXCEPT ![r] =
              IF ~isConnected
              THEN CtrlEnter(With(rq, Looked(rq, FALSE)), store, db,
                             isConnected, ok, dbok)
              ELSE LET g == RedisGet(store, MwKey(route, q), isConnected, ok).res
                   IN With(rq, [pc |-> "mw_get", got |-> g, mwGot |-> g,
                                mwKey |-> MwKey(route, q)]
                               @@ Sent(rq, isConnected, ok))]
    /\ UNCHANGED <<db, nextId, store, isConnected, now, call>>

(* A hit that sends the stored payload as it is. *)
MwHitUnmarked(rq) == Done(rq, 200, rq.got.v)

(* A hit of the middleware: the stored payload with cached: true, sent by  *)
(* the res.json of express.                                               *)
MwHit(rq) == Done(rq, 200, AddCached(rq.got.v))

(* The middleware has its answer: a hit is served, a miss replaces         *)
(* res.json and calls next().                                              *)
MwGot(r) ==
    /\ req[r].pc = "mw_get"
    /\ \E ok \in BOOLEAN, dbok \in BOOLEAN :
         LET rq == req[r]
         IN IF ~rq.got.nil
            THEN req' = [req EXCEPT ![r] = MwHit(rq)]
            ELSE req' = [req EXCEPT ![r] =
                   CtrlEnter(With(rq, [wrapped |-> TRUE]), store, db,
                             isConnected, ok, dbok)]
    /\ UNCHANGED <<db, nextId, store, isConnected, now, last, nOps, call>>

(* The handler has the answer for its own key. *)
CtrlGot(r) ==
    /\ req[r].pc = "c_get"
    /\ \E ok \in BOOLEAN, dbok \in BOOLEAN :
         LET rq == req[r]
         IN IF ~rq.got.nil
            THEN LET o == HandlerResponds(With(rq, [ctrlHit |-> TRUE]), 200,
                                          AddCached(rq.got.v), store, now,
                                          isConnected, ok)
                 IN /\ req' = [req EXCEPT ![r] = o.rq]
                    /\ store' = o.store
            ELSE /\ req' = [req EXCEPT ![r] = IssueRead1(rq, db, dbok)]
                 /\ store' = store
    /\ UNCHANGED <<db, nextId, isConnected, now, last, nOps, call>>

(* The first read of the record store is back. *)
CtrlFound(r) ==
    /\ req[r].pc = "c_find"
    /\ \E ok \in BOOLEAN, dbok \in BOOLEAN :
         LET rq == req[r]
         IN IF rq.dbErr
            THEN LET o == HandlerResponds(rq, 500, ErrorBody(ReadErrorMsg(rq.route)),
                                          store, now, isConnected, ok)
                 IN /\ req' = [req EXCEPT ![r] = o.rq]
                    /\ store' = o.store
            ELSE /\ req' = [req EXCEPT ![r] = IssueRead2(rq, db, dbok)]
                 /\ store' = store
    /\ UNCHANGED <<db, nextId, isConnected, now, last, nOps, call>>

(* The response object of the handler. *)
ReadBody(rq) ==
    IF rq.route = "history" THEN HistoryBody(rq.docs, rq.total, rq.query)
    ELSE StatsBody(rq.total, rq.agg.v)

(* The second read is back: the response is built and, with the store      *)
(* ready, written under the handler's key before it is sent.               *)
CtrlCounted(r) ==
    /\ req[r].pc = "c_count"
    /\ \E ok \in BOOLEAN :
         LET rq == req[r]
         IN IF rq.dbErr
            THEN LET o == HandlerResponds(rq, 500, ErrorBody(ReadErrorMsg(rq.route)),
                                          store, now, isConnected, ok)
                 IN /\ req' = [req EXCEPT ![r] = o.rq]
                    /\ store' = o.store
            ELSE IF isConnected
            THEN /\ store' = RedisSet(store, CtrlKey(rq.route, rq.query), ReadBody(rq),
                                      CtrlTtl(rq.route), now, isConnected, ok).store
                 /\ req' = [req EXCEPT ![r] =
                      With(rq, [pc |-> "c_set", out |-> Some(ReadBody(rq))]
                               @@ Sent(rq, isConnected, ok))]
            ELSE LET o == HandlerResponds(With(rq, Looked(rq, FALSE)), 200,
                                          ReadBody(rq), store, now, isConnected, ok)
                 IN /\ req' = [req EXCEPT ![r] = o.rq]
                    /\ store' = o.store
    /\ UNCHANGED <<db, nextId, isConnected, now, last, nOps, call>>

(* The write under the handler's key is acknowledged: the response goes out. *)
CtrlSetDone(r) ==
    /\ req[r].pc = "c_set"
    /\ \E ok \in BOOLEAN :
         LET o == HandlerResponds(req[r], 200, req[r].out.v, store, now,
                                  isConnected, ok)
         IN /\ req' = [req EXCEPT ![r] = o.rq]
            /\ store' = o.store
    /\ UNCHANGED <<db, nextId, isConnected, now, last, nOps, call>>

---------------------------------------------------------------------------
(* clearCache(pattern), for the patterns the handler still has to clear.   *)

CachePattern == <<"cache", "*">>
HistoryPattern == <<"history", "*">>
StatsPattern == <<"stats", "*">>
AllPattern == <<"*">>

(* The patterns each mutating handler clears, in the order of its calls. *)
GeneratePatterns == <<CachePattern>>
(* A delete-by-id and a clear-all that clear the middleware's keys only. *)
DeletePatternsCacheOnly == <<CachePattern>>
ClearPatternsCacheOnly == <<CachePattern>>

DeletePatterns == <<CachePattern, HistoryPattern, StatsPattern>>
ClearPatterns == <<AllPattern>>

(* clearCache without its try/catch: a failed keys() ends the request. *)
ClearCacheEnterRaises(rq, s, conn, ok) ==
    IF ~conn
    THEN With(rq, [pats |-> Tail(rq.pats)] @@ Looked(rq, conn))
    ELSE IF ~ok
    THEN Done(With(rq, Sent(rq, conn, ok)), 500, ErrorBody("Error clearing cache"))
    ELSE With(rq, [pc |-> "cc",
                   keys |-> {k \in DOMAIN s : GlobMatch(Head(rq.pats), k)}]
                  @@ Sent(rq, conn, ok))

(* clearCache is entered: not ready, nothing is done; ready, delPattern    *)
(* asks the server for the keys that match.                                *)
ClearCacheEnter(rq, s, conn, ok) ==
    IF ~conn
    THEN With(rq, [pats |-> Tail(rq.pats)] @@ Looked(rq, conn))
    ELSE With(rq, [pc |-> "cc_keys",
                   keys |-> RedisKeys(s, Head(rq.pats), conn, ok).res]
                  @@ Sent(rq, conn, ok))

ClearStart(r) ==
    /\ req[r].pc = "cc"
    /\ req[r].pats # <<>>
    /\ \E ok \in BOOLEAN :
         req' = [req EXCEPT ![r] = ClearCacheEnter(req[r], store, isConnected, ok)]
    /\ UNCHANGED <<db, nextId, store, isConnected, now, last, nOps, call>>

(* The keys are back: they are deleted in one DEL, if there are any. *)
ClearKeys(r) ==
    /\ req[r].pc = "cc_keys"
    /\ \E ok \in BOOLEAN :
         /\ store' = RedisDelKeys(store, req[r].keys, ok).store
         /\ req' = [req EXCEPT ![r] =
              With(req[r], [pc |-> "cc", keys |-> {}, pats |-> Tail(req[r].pats),
                            cleared |-> IF ok THEN req[r].cleared \cup req[r].keys
                                        ELSE req[r].cleared]
                           @@ (IF req[r].keys = {} THEN <<>>
                               ELSE Sent(req[r], TRUE, ok)))]
    /\ UNCHANGED <<db, nextId, isConnected, now, last, nOps, call>>

(* The handler goes on while patterns are still to be cleared. *)
ClearedEarly(r, kind) ==
    /\ req[r].kind = kind
    /\ req[r].pc = "cc"

Cleared(r, kind) ==
    /\ req[r].kind = kind
    /\ req[r].pc = "cc"
    /\ req[r].pats = <<>>

---------------------------------------------------------------------------
(* POST /generate *)

(* Seconds from t to the next local midnight. *)
SecondsUntilMidnight(t) == DaySeconds - (t % DaySeconds)

(* The 201 body: the saved document. *)
GenerateBody(rq) == [success |-> TRUE, data |-> rq.docs[1]]

(* The request arrives: validation, generation and passwordDoc.save(). *)
GenArrive(r, body) ==
    /\ Free(r)
    /\ Retire(r)
    /\ IF ~ValidateOptions(body.length, body.options).valid
       THEN /\ req' = [req EXCEPT ![r] =
                 HandlerResponds(Fresh("generate"), 400,
                                 ErrorBody(ValidateOptions(body.length,
                                                           body.options).error),
                                 store, now, isConnected, TRUE).rq]
            /\ UNCHANGED <<db, nextId>>
       ELSE /\ nextId <= MaxRecords
            /\ \E dbok \in BOOLEAN :
                 /\ req' = [req EXCEPT ![r] =
                      With(Fresh("generate"),
                           [pc |-> "g_save", id |-> nextId, dbErr |-> ~dbok,
                            dbFail |-> ~dbok,
                            docs |-> <<[id |-> nextId, length |-> body.length.n]>>])]
                 /\ db' = IF dbok
                          THEN <<[id |-> nextId, length |-> body.length.n]>> \o db
                          ELSE db
                 /\ nextId' = IF dbok THEN nextId + 1 ELSE nextId
    /\ UNCHANGED <<store, isConnected, now, call>>

(* save() is back: on success the caches under 'cache:*' are cleared. *)
GenSaved(r) ==
    /\ req[r].kind = "generate"
    /\ req[r].pc = "g_save"
    /\ req' = [req EXCEPT ![r] =
         IF req[r].dbErr
         THEN HandlerResponds(req[r], 500, ErrorBody("Failed to generate password"),
                              store, now, isConnected, TRUE).rq
         ELSE With(req[r], [pc |-> "cc", pats |-> GeneratePatterns])]
    /\ UNCHANGED <<db, nextId, store, isConnected, now, last, nOps, call>>

(* The telemetry without its isReady() test. *)
GenTelemetryUnguarded(r) ==
    /\ Cleared(r, "generate")
    /\ \E ok \in BOOLEAN :
         /\ store' = RedisIncr(store, CountKey, isConnected, ok).store
         /\ req' = [req EXCEPT ![r] =
              With(req[r], [pc |-> "g_incr1"] @@ Sent(req[r], isConnected, ok))]
    /\ UNCHANGED <<db, nextId, isConnected, now, last, nOps, call>>

(* The caches are cleared: with the store ready the total counter is       *)
(* incremented, otherwise the response goes out.                           *)
GenTelemetry(r) ==
    /\ Cleared(r, "generate")
    /\ \E ok \in BOOLEAN :
         IF isConnected
         THEN /\ store' = RedisIncr(store, CountKey, isConnected, ok).store
              /\ req' = [req EXCEPT ![r] =
                   With(req[r], [pc |-> "g_incr1"] @@ Sent(req[r], isConnected, ok))]
         ELSE /\ store' = store
              /\ req' = [req EXCEPT ![r] =
                   HandlerResponds(With(req[r], Looked(req[r], FALSE)), 201,
                                   GenerateBody(req[r]), store, now,
                                   isConnected, ok).rq]
    /\ UNCHANGED <<db, nextId, isConnected, now, last, nOps, call>>

(* The daily counter is incremented. *)
GenIncr1(r) ==
    /\ req[r].pc = "g_incr1"
    /\ \E ok \in BOOLEAN :
         /\ store' = RedisIncr(store, TodayKey, isConnected, ok).store
         /\ req' = [req EXCEPT ![r] =
              With(req[r], [pc |-> "g_incr2"] @@ Sent(req[r], isConnected, ok))]
    /\ UNCHANGED <<db, nextId, isConnected, now, last, nOps, call>>

(* The daily counter is given its expiry at midnight, by the raw client. *)
GenIncr2(r) ==
    /\ req[r].pc = "g_incr2"
    /\ \E ok \in BOOLEAN :
         LET e == ClientExpire(store, TodayKey, SecondsUntilMidnight(now), now, ok)
         IN /\ store' = e.store
            /\ req' = [req EXCEPT ![r] =
                 With(req[r], [pc |-> "g_exp", threw |-> e.threw]
                              @@ Sent(req[r], isConnected, ok))]
    /\ UNCHANGED <<db, nextId, isConnected, now, last, nOps, call>>

(* expire() is back, or has thrown into the handler's catch. *)
GenExpired(r) ==
    /\ req[r].pc = "g_exp"
    /\ req' = [req EXCEPT ![r] =
         IF req[r].threw
         THEN HandlerResponds(req[r], 500, ErrorBody("Failed to generate password"),
                              store, now, isConnected, TRUE).rq
         ELSE HandlerResponds(req[r], 201, GenerateBody(req[r]), store, now,
                              isConnected, TRUE).rq]
    /\ UNCHANGED <<db, nextId, store, isConnected, now, last, nOps, call>>

---------------------------------------------------------------------------
(* DELETE /:id *)

(* The request arrives: Password.findByIdAndDelete(id). *)
DelArrive(r, id) ==
    /\ Free(r)
    /\ Retire(r)
    /\ \E dbok \in BOOLEAN :
         /\ req' = [req EXCEPT ![r] =
              With(Fresh("delete"),
                   [pc |-> "d_find", id |-> id, dbErr |-> ~dbok, dbFail |-> ~dbok,
                    total |-> IF dbok /\ id \in Ids(db) THEN 1 ELSE 0])]
         /\ db' = IF dbok THEN SelectSeq(db, LAMBDA x : x.id # id) ELSE db
    /\ UNCHANGED <<nextId, store, isConnected, now, call>>

(* deletePassword clearing the three patterns whatever findByIdAndDelete   *)
(* has returned *)
DelFoundClearsAnyway(r) ==
    /\ req[r].kind = "delete"
    /\ req[r].pc = "d_find"
    /\ req' = [req EXCEPT ![r] =
         With(req[r], [pc |-> "cc", found |-> TRUE, pats |-> DeletePatterns])]
    /\ UNCHANGED <<db, nextId, store, isConnected, now, last, nOps, call>>

(* findByIdAndDelete is back: 404 when nothing was found, otherwise the    *)
(* three patterns are cleared.                                             *)
DelFound(r) ==
    /\ req[r].kind = "delete"
    /\ req[r].pc = "d_find"
    /\ req' = [req EXCEPT ![r] =
         IF req[r].dbErr
         THEN HandlerResponds(req[r], 500, ErrorBody("Failed to delete password"),
                              store, now, isConnected, TRUE).rq
         ELSE IF req[r].total = 0
         THEN HandlerResponds(req[r], 404, ErrorBody("Password not found"),
                              store, now, isConnected, TRUE).rq
         ELSE With(req[r], [pc |-> "cc", found |-> TRUE, pats |-> DeletePatterns])]
    /\ UNCHANGED <<db, nextId, store, isConnected, now, last, nOps, call>>

DelCleared(r) ==
    /\ Cleared(r, "delete")
    /\ req' = [req EXCEPT ![r] =
         HandlerResponds(req[r], 200,
                         [success |-> TRUE, message |-> "Password deleted successfully"],
                         store, now, isConnected, TRUE).rq]
    /\ UNCHANGED <<db, nextId, store, isConnected, now, last, nOps, call>>

---------------------------------------------------------------------------
(* DELETE /history *)

(* The request arrives: Password.deleteMany({}). *)
ClearArrive(r) ==
    /\ Free(r)
    /\ Retire(r)
    /\ \E dbok \in BOOLEAN :
         /\ req' = [req EXCEPT ![r] =
              With(Fresh("clear"),
                   [pc |-> "cl_db", dbErr |-> ~dbok, dbFail |-> ~dbok,
                    total |-> IF dbok THEN Len(db) ELSE 0])]
         /\ db' = IF dbok THEN <<>> ELSE db
    /\ UNCHANGED <<nextId, store, isConnected, now, call>>

(* deleteMany is back: every key is cleared. *)
ClearDeleted(r) ==
    /\ req[r].kind = "clear"
    /\ req[r].pc = "cl_db"
    /\ req' = [req EXCEPT ![r] =
         IF req[r].dbErr
         THEN HandlerResponds(req[r], 500, ErrorBody("Failed to clear history"),
                              store, now, isConnected, TRUE).rq
         ELSE With(req[r], [pc |-> "cc", pats |-> ClearPatterns])]
    /\ UNCHANGED <<db, nextId, store, isConnected, now, last, nOps, call>>

ClearBody(rq) ==
    [success |-> TRUE, message |-> "History cleared successfully",
     deletedCount |-> rq.total]

(* The caches are cleared: with the store ready the two generation         *)
(* counters are deleted, the total first.                                  *)
ClearReset(r) ==
    /\ Cleared(r, "clear")
    /\ \E ok \in BOOLEAN :
         IF isConnected
         THEN /\ store' = RedisDel(store, CountKey, isConnected, ok).store
              /\ req' = [req EXCEPT ![r] =
                   With(req[r], [pc |-> "cl_del1"] @@ Sent(req[r], isConnected, ok))]
         ELSE /\ store' = store
              /\ req' = [req EXCEPT ![r] =
                   HandlerResponds(With(req[r], Looked(req[r], FALSE)), 200,
                                   ClearBody(req[r]), store, now, isConnected, ok).rq]
    /\ UNCHANGED <<db, nextId, isConnected, now, last, nOps, call>>

ClearDel1(r) ==
    /\ req[r].pc = "cl_del1"
    /\ \E ok \in BOOLEAN :
         /\ store' = RedisDel(store, TodayKey, isConnected, ok).store
         /\ req' = [req EXCEPT ![r] =
              With(req[r], [pc |-> "cl_del2"] @@ Sent(req[r], isConnected, ok))]
    /\ UNCHANGED <<db, nextId, isConnected, now, last, nOps, call>>

ClearDel2(r) ==
    /\ req[r].pc = "cl_del2"
    /\ req' = [req EXCEPT ![r] =
         HandlerResponds(req[r], 200, ClearBody(req[r]), store, now,
                         isConnected, TRUE).rq]
    /\ UNCHANGED <<db, nextId, store, isConnected, now, last, nOps, call>>

---------------------------------------------------------------------------
(* GET /cache-stats *)

(* (x).toFixed(2) for x = 100 * num / den, den > 0: the nearest number of  *)
(* hundredths, the larger of two equally near, with two decimals.          *)
ToFixed2(num, den) ==
    LET h == (2 * 10000 * num + den) \div (2 * den)
    IN ToString(h \div 100) \o "."
       \o ToString((h % 100) \div 10) \o ToString(h % 10)

(* hitRate: Number(totalRequests) > 0 ? (hits / totalRequests * 100).toFixed(2) : '0.00' *)
HitRate(hits, total) ==
    IF total > 0 THEN ToFixed2(hits, total) ELSE "0.00"

(* The keys read, in the order of the handler's awaits. *)
ReportKeys == <<CountKey, TodayKey, TotalRequestsKey, HitsKey, MissesKey>>

StartsWith(k, prefix) == Len(k) > 1 /\ k[1] = prefix

CacheStatsBody(vals, keys) ==
    [success |-> TRUE,
     data |-> [cacheEnabled |-> TRUE,
               statistics |-> [totalGenerations |-> vals[1],
                               todayGenerations |-> vals[2],
                               totalRequests |-> vals[3],
                               cacheHits |-> vals[4],
                               cacheMisses |-> vals[5],
                               hitRate |-> HitRate(vals[4], vals[3]) \o "%"],
               cachedItems |->
                   [total |-> Cardinality(keys),
                    cacheKeys |-> Cardinality({k \in keys : StartsWith(k, "cache")}),
                    historyKeys |-> Cardinality({k \in keys : StartsWith(k, "history")}),
                    statsKeys |-> Cardinality({k \in keys : StartsWith(k, "stats")})]]]

DisabledBody ==
    [success |-> TRUE,
     data |-> [cacheEnabled |-> FALSE, message |-> "Redis is not connected"]]

NotConnectedBody == ErrorBody("Redis is not connected")

(* The request arrives: not ready, the report says so; ready, the first    *)
(* counter is read.                                                        *)
CacheStatsArrive(r) ==
    /\ Free(r)
    /\ Retire(r)
    /\ \E ok \in BOOLEAN :
         LET rq == Fresh("cachestats")
         IN req' = [req EXCEPT ![r] =
              IF ~isConnected
              THEN HandlerResponds(With(rq, Looked(rq, FALSE)), 200, DisabledBody,
                                   store, now, isConnected, ok).rq
              ELSE With(rq, [pc |-> "cs_get",
                             docs |-> <<ReadCounter(store, ReportKeys[1],
                                                    isConnected, ok)>>]
                            @@ Sent(rq, isConnected, ok))]
    /\ UNCHANGED <<db, nextId, store, isConnected, now, call>>

(* A counter is back: the next one is read. *)
CacheStatsRead(r) ==
    /\ req[r].pc = "cs_get"
    /\ Len(req[r].docs) < Len(ReportKeys)
    /\ \E ok \in BOOLEAN :
         req' = [req EXCEPT ![r] =
           With(req[r],
                [docs |-> Append(req[r].docs,
                                 ReadCounter(store, ReportKeys[Len(req[r].docs) + 1],
                                             isConnected, ok))]
                @@ Sent(req[r], isConnected, ok))]
    /\ UNCHANGED <<db, nextId, store, isConnected, now, last, nOps, call>>

(* The last counter is back: every key is asked for, by the raw client. *)
CacheStatsKeys(r) ==
    /\ req[r].pc = "cs_get"
    /\ Len(req[r].docs) = Len(ReportKeys)
    /\ \E ok \in BOOLEAN :
         LET k == ClientKeys(store, AllPattern, ok)
         IN req' = [req EXCEPT ![r] =
              With(req[r], [pc |-> "cs_keys", keys |-> k.res, threw |-> k.threw]
                           @@ Sent(req[r], isConnected, ok))]
    /\ UNCHANGED <<db, nextId, store, isConnected, now, last, nOps, call>>

(* keys() is back, or has thrown into the handler's catch. *)
CacheStatsDone(r) ==
    /\ req[r].pc = "cs_keys"
    /\ req' = [req EXCEPT ![r] =
         IF req[r].threw
         THEN HandlerResponds(req[r], 500,
                              ErrorBody("Failed to fetch cache statistics"),
                              store, now, isConnected, TRUE).rq
         ELSE HandlerResponds(req[r], 200,
                              CacheStatsBody(req[r].docs, req[r].keys),
                              store, now, isConnected, TRUE).rq]
    /\ UNCHANGED <<db, nextId, store, isConnected, now, last, nOps, call>>

---------------------------------------------------------------------------
(* DELETE /cache: clearCacheManually, as invoked.  (The router registers   *)
(* DELETE /:id before DELETE /cache.)                                      *)

(* The manual clear taking every key under 'stats:' with the views. *)
ManualPatternsAllStats == <<CachePattern, HistoryPattern, StatsPattern>>

ManualPatterns == <<CachePattern, HistoryPattern, StatsAllKey>>

(* The request arrives: not ready, 400; ready, the three patterns are      *)
(* cleared.                                                                *)
ManualArrive(r) ==
    /\ Free(r)
    /\ Retire(r)
    /\ LET rq == Fresh("manual")
       IN req' = [req EXCEPT ![r] =
            IF ~isConnected
            THEN HandlerResponds(With(rq, Looked(rq, FALSE)), 400, NotConnectedBody,
                                 store, now, isConnected, TRUE).rq
            ELSE With(rq, [pc |-> "cc", pats |-> ManualPatterns]
                          @@ Looked(rq, TRUE))]
    /\ UNCHANGED <<db, nextId, store, isConnected, now, call>>

ManualCleared(r) ==
    /\ Cleared(r, "manual")
    /\ req' = [req EXCEPT ![r] =
         HandlerResponds(req[r], 200,
                         [success |-> TRUE, message |-> "Cache cleared successfully"],
                         store, now, isConnected, TRUE).rq]
    /\ UNCHANGED <<db, nextId, store, isConnected, now, last, nOps, call>>

---------------------------------------------------------------------------
(* POST /reset-cache-stats *)

ResetKeys == <<TotalRequestsKey, HitsKey, MissesKey>>

(* The request arrives: not ready, 400; ready, the first counter is        *)
(* deleted.                                                                *)
ResetArrive(r) ==
    /\ Free(r)
    /\ Retire(r)
    /\ \E ok \in BOOLEAN :
         LET rq == Fresh("reset")
         IN IF ~isConnected
            THEN /\ req' = [req EXCEPT ![r] =
                      HandlerResponds(With(rq, Looked(rq, FALSE)), 400,
                                      NotConnectedBody, store, now,
                                      isConnected, ok).rq]
                 /\ store' = store
            ELSE /\ req' = [req EXCEPT ![r] =
                      With(rq, [pc |-> "rs_del", total |-> 1]
                               @@ Sent(rq, isConnected, ok))]
                 /\ store' = RedisDel(store, ResetKeys[1], isConnected, ok).store
    /\ UNCHANGED <<db, nextId, isConnected, now, call>>

(* A del is back: the next counter is deleted. *)
ResetDel(r) ==
    /\ req[r].pc = "rs_del"
    /\ req[r].total < Len(ResetKeys)
    /\ \E ok \in BOOLEAN :
         /\ store' = RedisDel(store, ResetKeys[req[r].total + 1], isConnected, ok).store
         /\ req' = [req EXCEPT ![r] =
              With(req[r], [total |-> req[r].total + 1]
                           @@ Sent(req[r], isConnected, ok))]
    /\ UNCHANGED <<db, nextId, isConnected, now, last, nOps, call>>

ResetDone(r) ==
    /\ req[r].pc = "rs_del"
    /\ req[r].total = Len(ResetKeys)
    /\ req' = [req EXCEPT ![r] =
         HandlerResponds(req[r], 200,
                         [success |-> TRUE,
                          message |-> "Cache statistics reset successfully"],
                         store, now, isConnected, TRUE).rq]
    /\ UNCHANGED <<db, nextId, store, isConnected, now, last, nOps, call>>

---------------------------------------------------------------------------
(* GET /performance.  A measured time is a whole number of hundredths of a *)
(* millisecond.                                                            *)

TestKey == <<"performance", "test">>

Latencies == {0, 1, 250}

(* (t).toFixed(2) with "ms", t in milliseconds *)
Millis(t) == ToFixed2(t, 10000) \o "ms"

(* speedup: dbReadTime > 0 ? `${(dbReadTime / cacheReadTime).toFixed(2)}x faster` : 'N/A' *)
Speedup(dbReadTime, cacheReadTime) ==
    IF dbReadTime > 0
    THEN (IF cacheReadTime = 0 THEN "Infinity"
          ELSE ToFixed2(dbReadTime, 100 * cacheReadTime)) \o "x faster"
    ELSE "N/A"

(* vals: cacheReadTime, dbReadTime, totalRequests, cacheHits, cacheMisses *)
PerformanceBody(vals) ==
    [success |-> TRUE,
     data |-> [performance |->
                   [cacheReadTime |-> Millis(vals[1]),
                    databaseReadTime |-> Millis(vals[2]),
                    speedup |-> Speedup(vals[2], vals[1])],
               cacheStatistics |->
                   [totalRequests |-> vals[3], cacheHits |-> vals[4],
                    cacheMisses |-> vals[5],
                    hitRate |-> HitRate(vals[4], vals[3]) \o "%"]]]

(* The request arrives: not ready, the report says so; ready, the test key *)
(* is set.                                                                 *)
PerfArrive(r) ==
    /\ Free(r)
    /\ Retire(r)
    /\ \E ok \in BOOLEAN :
         LET rq == Fresh("performance")
             w == RedisSet(store, TestKey, [test |-> "data"], 10, now, isConnected, ok)
         IN IF ~isConnected
            THEN /\ req' = [req EXCEPT ![r] =
                      HandlerResponds(With(rq, Looked(rq, FALSE)), 200, DisabledBody,
                                      store, now, isConnected, ok).rq]
                 /\ store' = store
            ELSE /\ req' = [req EXCEPT ![r] =
                      With(rq, [pc |-> "pf_set"] @@ Sent(rq, isConnected, ok))]
                 /\ store' = w.store
    /\ UNCHANGED <<db, nextId, isConnected, now, call>>

(* set() is back: the test key is read, which takes cacheReadTime, and     *)
(* deleted.                                                                *)
PerfRead(r) ==
    /\ req[r].pc = "pf_set"
    /\ \E cacheReadTime \in Latencies, ok \in BOOLEAN :
         /\ req' = [req EXCEPT ![r] =
              With(req[r], [pc |-> "pf_del", docs |-> <<cacheReadTime>>]
                           @@ Sent(req[r], isConnected, ok))]
         /\ store' = RedisDel(store, TestKey, isConnected, ok).store
    /\ UNCHANGED <<db, nextId, isConnected, now, last, nOps, call>>

(* del() is back: Password.findOne(), which takes dbReadTime or fails; the *)
(* three counters are read and the raw client is asked for its memory.     *)
PerfMeasured(r) ==
    /\ req[r].pc = "pf_del"
    /\ \E dbReadTime \in Latencies, dbok \in BOOLEAN, ok \in BOOLEAN, infoOk \in BOOLEAN :
         req' = [req EXCEPT ![r] =
           With(req[r],
                [pc |-> "pf_info",
                 docs |-> req[r].docs \o
                          <<dbReadTime,
                            ReadCounter(store, TotalRequestsKey, isConnected, ok),
                            ReadCounter(store, HitsKey, isConnected, ok),
                            ReadCounter(store, MissesKey, isConnected, ok)>>,
                 dbFail |-> ~dbok,
                 threw |-> ~dbok \/ ~infoOk]
                @@ Sent(req[r], isConnected, ok /\ infoOk))]
    /\ UNCHANGED <<db, nextId, store, isConnected, now, last, nOps, call>>

(* info() is back, or something has thrown into the handler's catch. *)
PerfDone(r) ==
    /\ req[r].pc = "pf_info"
    /\ req' = [req EXCEPT ![r] =
         IF req[r].threw
         THEN HandlerResponds(req[r], 500,
                              ErrorBody("Failed to fetch performance metrics"),
                              store, now, isConnected, TRUE).rq
         ELSE HandlerResponds(req[r], 200, PerformanceBody(req[r].docs),
                              store, now, isConnected, TRUE).rq]
    /\ UNCHANGED <<db, nextId, store, isConnected, now, last, nOps, call>>

---------------------------------------------------------------------------
(* The environment: the connection's events and the passing of time.       *)

(* client.on("ready") *)
OnReady ==
    /\ ~isConnected
    /\ isConnected' = TRUE
    /\ UNCHANGED <<db, nextId, store, now, req, last, nOps, call>>

(* client.on("error"), client.on("end") *)
OnErrorOrEnd ==
    /\ isConnected
    /\ isConnected' = FALSE
    /\ UNCHANGED <<db, nextId, store, now, req, last, nOps, call>>

(* Time passes; the server drops the keys whose expiry is reached. *)
Tick ==
    /\ now + TickSeconds <= MaxTicks * TickSeconds
    /\ now' = now + TickSeconds
    /\ store' = Purge(store, now')
    /\ LET gone == DOMAIN store # DOMAIN store'
       IN /\ req' = [r \in Slots |->
                 With(req[r], [expired |-> req[r].expired \/ gone])]
          /\ last' = With(last, [expired |-> last.expired \/ gone])
    /\ UNCHANGED <<db, nextId, isConnected, nOps, call>>

---------------------------------------------------------------------------
Init ==
    /\ db = <<>>
    /\ nextId = 1
    /\ store = <<>>
    /\ isConnected = FALSE
    /\ now = 0
    /\ req = [r \in Slots |-> Idle]
    /\ last = Answered(Idle)
    /\ nOps = 0
    /\ call = NoCall

Next ==
    \/ \E r \in Slots, route \in Routes :
         \E q \in RouteQueries(route) : GetArrive(r, route, q)
    \/ \E r \in Slots : MwGot(r)
    \/ \E r \in Slots : CtrlGot(r)
    \/ \E r \in Slots : CtrlFound(r)
    \/ \E r \in Slots : CtrlCounted(r)
    \/ \E r \in Slots : CtrlSetDone(r)
    \/ \E r \in Slots, body \in GenBodies : GenArrive(r, body)
    \/ \E r \in Slots : GenSaved(r)
    \/ \E r \in Slots : GenTelemetry(r)
    \/ \E r \in Slots : GenIncr1(r)
    \/ \E r \in Slots : GenIncr2(r)
    \/ \E r \in Slots : GenExpired(r)
    \/ \E r \in Slots, id \in 1..MaxRecords : DelArrive(r, id)
    \/ \E r \in Slots : DelFound(r)
    \/ \E r \in Slots : DelCleared(r)
    \/ \E r \in Slots : ClearArrive(r)
    \/ \E r \in Slots : ClearDeleted(r)
    \/ \E r \in Slots : ClearReset(r)
    \/ \E r \in Slots : ClearDel1(r)
    \/ \E r \in Slots : ClearDel2(r)
    \/ \E r \in Slots : ClearStart(r)
    \/ \E r \in Slots : ClearKeys(r)
    \/ OnReady
    \/ OnErrorOrEnd
    \/ Tick

Spec == Init /\ [][Next]_vars

---------------------------------------------------------------------------
(* The telemetry: the statistics view, the mutations, the report, the      *)
(* reset and the manual clear, over a day boundary.  The server outlives   *)
(* the process: the keyspace found at start is empty, or holds the three   *)
(* cache counters, which the handlers read and delete and which no code of *)
(* this repository writes.                                                 *)

CountersAtStart ==
    [k \in {TotalRequestsKey, HitsKey, MissesKey} |->
        [val |-> IntText(IF k = TotalRequestsKey THEN 4
                         ELSE IF k = HitsKey THEN 3 ELSE 1),
         exp |-> NoExpiry]]

KeyspacesAtStart == {<<>>, CountersAtStart}

(* The clock reaches the next local midnight; the server drops the keys    *)
(* whose expiry is reached.                                                *)
Midnight ==
    /\ now < DaySeconds
    /\ now' = now + SecondsUntilMidnight(now)
    /\ store' = Purge(store, now')
    /\ LET gone == DOMAIN store # DOMAIN store'
       IN /\ req' = [r \in Slots |->
                 With(req[r], [expired |-> req[r].expired \/ gone])]
          /\ last' = With(last, [expired |-> last.expired \/ gone])
    /\ UNCHANGED <<db, nextId, isConnected, nOps, call>>

InitTelemetry ==
    /\ db = <<>>
    /\ nextId = 1
    /\ store \in KeyspacesAtStart
    /\ isConnected = FALSE
    /\ now = 0
    /\ req = [r \in Slots |-> Idle]
    /\ last = Answered(Idle)
    /\ nOps = 0
    /\ call = NoCall

NextTelemetry ==
    \/ \E r \in Slots : GetArrive(r, "stats", <<>>)
    \/ \E r \in Slots : MwGot(r)
    \/ \E r \in Slots : CtrlGot(r)
    \/ \E r \in Slots : CtrlFound(r)
    \/ \E r \in Slots : CtrlCounted(r)
    \/ \E r \in Slots : CtrlSetDone(r)
    \/ \E r \in Slots :
         \E body \in {b \in GenBodies : ValidateOptions(b.length, b.options).valid} :
             GenArrive(r, body)
    \/ \E r \in Slots : GenSaved(r)
    \/ \E r \in Slots : GenTelemetry(r)
    \/ \E r \in Slots : GenIncr1(r)
    \/ \E r \in Slots : GenIncr2(r)
    \/ \E r \in Slots : GenExpired(r)
    \/ \E r \in Slots, id \in 1..MaxRecords : DelArrive(r, id)
    \/ \E r \in Slots : DelFound(r)
    \/ \E r \in Slots : DelCleared(r)
    \/ \E r \in Slots : ClearStart(r)
    \/ \E r \in Slots : ClearKeys(r)
    \/ \E r \in Slots : CacheStatsArrive(r)
    \/ \E r \in Slots : CacheStatsRead(r)
    \/ \E r \in Slots : CacheStatsKeys(r)
    \/ \E r \in Slots : CacheStatsDone(r)
    \/ \E r \in Slots : ManualArrive(r)
    \/ \E r \in Slots : ManualCleared(r)
    \/ \E r \in Slots : ResetArrive(r)
    \/ \E r \in Slots : ResetDel(r)
    \/ \E r \in Slots : ResetDone(r)
    \/ OnReady
    \/ OnErrorOrEnd
    \/ Midnight

SpecTelemetry == InitTelemetry /\ [][NextTelemetry]_vars

(* The same from an empty keyspace. *)
SpecReport == Init /\ [][NextTelemetry]_vars

---------------------------------------------------------------------------
(* The views over several minutes.  Both views have been read at time 0 on *)
(* the empty record store with the store ready, so the handlers' entries   *)
(* and the middleware's entries hold what the record store produced at     *)
(* time 0; the record store changes at time 0 only.  The connection stays  *)
(* up; a command may still fail.                                           *)

ViewsAtStart ==
    LET entry(route, ttl) ==
            [val |-> Stringify(FreshBody(<<>>, route, <<>>)), exp |-> ttl]
    IN Put(Put(Put(Put(<<>>,
         CtrlKey("history", <<>>), entry("history", CtrlTtlHistory)),
         MwKey("history", <<>>), entry("history", MwTtlHistory)),
         CtrlKey("stats", <<>>), entry("stats", CtrlTtlStats)),
         MwKey("stats", <<>>), entry("stats", MwTtlStats))

(* Time passes between two requests (a request takes no time); the server *)
(* drops the keys whose expiry is reached.                                 *)
Advance ==
    /\ \A r \in Slots : req[r].pc \in {"idle", "done"}
    /\ now + StaleStep <= MaxStaleSteps * StaleStep
    /\ now' = now + StaleStep
    /\ store' = Purge(store, now')
    /\ LET gone == DOMAIN store # DOMAIN store'
       IN /\ req' = [r \in Slots |->
                 With(req[r], [expired |-> req[r].expired \/ gone])]
          /\ last' = With(last, [expired |-> last.expired \/ gone])
    /\ UNCHANGED <<db, nextId, isConnected, nOps, call>>

InitStale ==
    /\ db = <<>>
    /\ nextId = 1
    /\ store = ViewsAtStart
    /\ isConnected = TRUE
    /\ now = 0
    /\ req = [r \in Slots |-> Idle]
    /\ last = Answered(Idle)
    /\ nOps = 0
    /\ call = NoCall

NextStale ==
    \/ \E r \in Slots, route \in Routes : GetArrive(r, route, <<>>)
    \/ \E r \in Slots : MwGot(r)
    \/ \E r \in Slots : CtrlGot(r)
    \/ \E r \in Slots : CtrlFound(r)
    \/ \E r \in Slots : CtrlCounted(r)
    \/ \E r \in Slots : CtrlSetDone(r)
    \/ /\ now = 0
       /\ \E r \in Slots :
            \E body \in {b \in GenBodies : ValidateOptions(b.length, b.options).valid} :
              GenArrive(r, body)
    \/ \E r \in Slots : GenSaved(r)
    \/ \E r \in Slots : GenTelemetry(r)
    \/ \E r \in Slots : GenIncr1(r)
    \/ \E r \in Slots : GenIncr2(r)
    \/ \E r \in Slots : GenExpired(r)
    \/ \E r \in Slots : ClearStart(r)
    \/ \E r \in Slots : ClearKeys(r)
    \/ Advance

SpecStale == InitStale /\ [][NextStale]_vars

(* A request in flight goes on: every await of a handler returns. *)
Proceed ==
    \E r \in Slots :
        \/ MwGot(r) \/ CtrlGot(r) \/ CtrlFound(r) \/ CtrlCounted(r)
        \/ CtrlSetDone(r) \/ GenSaved(r) \/ GenTelemetry(r) \/ GenIncr1(r)
        \/ GenIncr2(r) \/ GenExpired(r) \/ ClearStart(r) \/ ClearKeys(r)

(* The same, with every request going on to its response and time          *)
(* advancing.                                                              *)
SpecConverge ==
    InitStale /\ [][NextStale]_vars /\ WF_vars(Proceed) /\ WF_vars(Advance)

---------------------------------------------------------------------------
(* Two requests in flight.  The handlers run on one thread and interleave  *)
(* at their awaits, one action each; the one connection sends the commands *)
(* in the order of the calls and the server runs them in that order.  The  *)
(* connection stays up; a command may still fail.                          *)

Racers == {1, 2}

InitRace ==
    /\ db = <<>>
    /\ nextId = 1
    /\ store = <<>>
    /\ isConnected = TRUE
    /\ now = 0
    /\ req = [r \in Racers |-> Idle]
    /\ last = Answered(Idle)
    /\ nOps = 0
    /\ call = NoCall

NextRace ==
    \/ \E r \in Racers : GetArrive(r, "history", <<>>)
    \/ \E r \in Racers : MwGot(r)
    \/ \E r \in Racers : CtrlGot(r)
    \/ \E r \in Racers : CtrlFound(r)
    \/ \E r \in Racers : CtrlCounted(r)
    \/ \E r \in Racers : CtrlSetDone(r)
    \/ \E r \in Racers :
         \E body \in {b \in GenBodies : ValidateOptions(b.length, b.options).valid} :
           GenArrive(r, body)
    \/ \E r \in Racers : GenSaved(r)
    \/ \E r \in Racers : GenTelemetry(r)
    \/ \E r \in Racers : GenIncr1(r)
    \/ \E r \in Racers : GenIncr2(r)
    \/ \E r \in Racers : GenExpired(r)
    \/ \E r \in Racers : DelArrive(r, 1)
    \/ \E r \in Racers : DelFound(r)
    \/ \E r \in Racers : DelCleared(r)
    \/ \E r \in Racers : ClearArrive(r)
    \/ \E r \in Racers : ClearDeleted(r)
    \/ \E r \in Racers : ClearReset(r)
    \/ \E r \in Racers : ClearDel1(r)
    \/ \E r \in Racers : ClearDel2(r)
    \/ \E r \in Racers : ClearStart(r)
    \/ \E r \in Racers : ClearKeys(r)

SpecRace == InitRace /\ [][NextRace]_vars

---------------------------------------------------------------------------
(* The manual clear on a keyspace that holds the views: both views have    *)
(* been read on the empty record store, and the keyspace may hold the      *)
(* three cache counters from outside the process.  Generates bring the     *)
(* generation counters, reads bring the entries back.                      *)

InitManual ==
    /\ db = <<>>
    /\ nextId = 1
    /\ store \in {ViewsAtStart, ViewsAtStart @@ CountersAtStart}
    /\ isConnected = TRUE
    /\ now = 0
    /\ req = [r \in Slots |-> Idle]
    /\ last = Answered(Idle)
    /\ nOps = 0
    /\ call = NoCall

NextManual ==
    \/ \E r \in Slots, route \in Routes : GetArrive(r, route, <<>>)
    \/ \E r \in Slots : MwGot(r)
    \/ \E r \in Slots : CtrlGot(r)
    \/ \E r \in Slots : CtrlFound(r)
    \/ \E r \in Slots : CtrlCounted(r)
    \/ \E r \in Slots : CtrlSetDone(r)
    \/ \E r \in Slots :
         \E body \in {b \in GenBodies : ValidateOptions(b.length, b.options).valid} :
             GenArrive(r, body)
    \/ \E r \in Slots : GenSaved(r)
    \/ \E r \in Slots : GenTelemetry(r)
    \/ \E r \in Slots : GenIncr1(r)
    \/ \E r \in Slots : GenIncr2(r)
    \/ \E r \in Slots : GenExpired(r)
    \/ \E r \in Slots : ClearStart(r)
    \/ \E r \in Slots : ClearKeys(r)
    \/ \E r \in Slots : ManualArrive(r)
    \/ \E r \in Slots : ManualCleared(r)
    \/ OnReady
    \/ OnErrorOrEnd

SpecManual == InitManual /\ [][NextManual]_vars

---------------------------------------------------------------------------
(* The connection.  Here call holds the client under RedisClient: its      *)
(* socket (closed, connecting, ready, or closing after quit) and the last  *)
(* of the events ready, error and end it has emitted.  The client emits    *)
(* ready when a connection it was opening is usable, error while it has a  *)
(* socket (it then reconnects), end when a quit has closed it.             *)

Connection(socket, event) == [op |-> "connection", socket |-> socket, event |-> event]

(* An error handler that logs and leaves the flag alone. *)
ClientErrorLogsOnly ==
    /\ call.socket \in {"connecting", "ready"}
    /\ isConnected' = isConnected
    /\ call' = Connection("connecting", "error")
    /\ UNCHANGED <<db, nextId, store, now, req, last, nOps>>

(* client.on("error"): isConnected = false. *)
ClientError ==
    /\ call.socket \in {"connecting", "ready"}
    /\ isConnected' = FALSE
    /\ call' = Connection("connecting", "error")
    /\ UNCHANGED <<db, nextId, store, now, req, last, nOps>>

(* client.on("ready"): isConnected = true. *)
ClientReady ==
    /\ call.socket = "connecting"
    /\ isConnected' = TRUE
    /\ call' = Connection("ready", "ready")
    /\ UNCHANGED <<db, nextId, store, now, req, last, nOps>>

(* client.on("end"): isConnected = false. *)
ClientEnd ==
    /\ call.socket = "closing"
    /\ isConnected' = FALSE
    /\ call' = Connection("closed", "end")
    /\ UNCHANGED <<db, nextId, store, now, req, last, nOps>>

(* connect(): with the flag down, client.connect(), which opens a socket   *)
(* if the client has none and otherwise rejects (rethrown by connect());   *)
(* with the flag up, nothing.                                              *)
Connect ==
    /\ call' = IF ~isConnected /\ call.socket = "closed"
               THEN Connection("connecting", call.event)
               ELSE call
    /\ UNCHANGED <<db, nextId, store, isConnected, now, req, last, nOps>>

(* disconnect(): with the flag up, client.quit(); otherwise nothing. *)
Disconnect ==
    /\ call' = IF isConnected
               THEN Connection("closing", call.event)
               ELSE call
    /\ UNCHANGED <<db, nextId, store, isConnected, now, req, last, nOps>>

InitConnection ==
    /\ db = <<>>
    /\ nextId = 1
    /\ store = <<>>
    /\ isConnected = FALSE
    /\ now = 0
    /\ req = [r \in Slots |-> Idle]
    /\ last = Answered(Idle)
    /\ nOps = 0
    /\ call = Connection("closed", "none")

NextConnection ==
    \/ Connect
    \/ Disconnect
    \/ ClientReady
    \/ ClientError
    \/ ClientEnd
    \/ \E r \in Slots : GetArrive(r, "history", <<>>)
    \/ \E r \in Slots : MwGot(r)
    \/ \E r \in Slots : CtrlGot(r)
    \/ \E r \in Slots : CtrlFound(r)
    \/ \E r \in Slots : CtrlCounted(r)
    \/ \E r \in Slots : CtrlSetDone(r)

SpecConnection == InitConnection /\ [][NextConnection]_vars

---------------------------------------------------------------------------
(* The performance probe, with the connection coming and going. *)
NextProbe ==
    \/ \E r \in Slots : PerfArrive(r)
    \/ \E r \in Slots : PerfRead(r)
    \/ \E r \in Slots : PerfMeasured(r)
    \/ \E r \in Slots : PerfDone(r)
    \/ OnReady
    \/ OnErrorOrEnd
    \/ Tick

SpecProbe == Init /\ [][NextProbe]_vars

---------------------------------------------------------------------------
(* PasswordService.  A character is a string of length one, a charset and  *)
(* the pool are sequences of characters.  A Uint32 is the pair <<hi, lo>>  *)
(* of its 16-bit halves, hi * 2^16 + lo.                                   *)

CHARSETS ==
    [upper |->
         <<"A", "B", "C", "D", "E", "F", "G", "H", "I", "J", "K", "L", "M",
         "N", "O", "P", "Q", "R", "S", "T", "U", "V", "W", "X", "Y",
         "Z">>,
     lower |->
         <<"a", "b", "c", "d", "e", "f", "g", "h", "i", "j", "k", "l", "m",
         "n", "o", "p", "q", "r", "s", "t", "u", "v", "w", "x", "y",
         "z">>,
     numbers |->
         <<"0", "1", "2", "3", "4", "5", "6", "7", "8", "9">>,
     symbols |->
         <<"!", "@", "#", "$", "%", "^", "&", "*", "(", ")", "_", "+", "-",
         "=", "[", "]", "{", "}", "<", ">", "?">>]

Half16 == 2^16

Limb == 2^20

(* a number below 2^60 in three limbs of 20 bits, lowest first; over: the  *)
(* number has reached 2^60.                                                *)
TimesSmall(x, p) ==
    LET a1 == x.l[1] * p
        a2 == x.l[2] * p + a1 \div Limb
        a3 == x.l[3] * p + a2 \div Limb
    IN [l |-> <<a1 % Limb, a2 % Limb, a3 % Limb>>,
        over |-> x.over \/ a3 >= Limb]

(* acc * p^n, stopping once 2^60 is reached *)
RECURSIVE TimesPower(_, _, _)
TimesPower(acc, p, n) ==
    IF n = 0 \/ acc.over THEN acc
    ELSE TimesPower(TimesSmall(acc, p), p, n - 1)

Power(p, n) == TimesPower([l |-> <<1, 0, 0>>, over |-> FALSE], p, n)

(* n * Math.log2(p) < bits, for bits 40 or 60: p^n < 2^bits.  (No reachable *)
(* n * log2(p) is within 0.09 of 40 or 60, so the rounding of the floating  *)
(* point product does not matter.)                                          *)
EntropyBelow(n, p, bits) ==
    LET x == Power(p, n)
    IN ~x.over /\ \A i \in 1..3 : i > bits \div 20 => x.l[i] = 0

(* evaluateStrength with password.length replaced by the number of         *)
(* different characters of the password *)
EvaluateStrengthByDistinct(password, poolSize) ==
    LET n == Cardinality({password[i] : i \in 1..Len(password)})
    IN IF EntropyBelow(n, poolSize, WeakBelow) THEN "Weak"
       ELSE IF EntropyBelow(n, poolSize, MediumBelow) THEN "Medium"
       ELSE "Strong"

(* evaluateStrength *)
EvaluateStrength(password, poolSize) ==
    IF EntropyBelow(Len(password), poolSize, WeakBelow) THEN "Weak"
    ELSE IF EntropyBelow(Len(password), poolSize, MediumBelow) THEN "Medium"
    ELSE "Strong"

(* the pool without the branch for options.symbols *)
PoolNoSymbols(options) ==
    (IF "upper" \in options THEN CHARSETS.upper ELSE <<>>)
    \o (IF "lower" \in options THEN CHARSETS.lower ELSE <<>>)
    \o (IF "numbers" \in options THEN CHARSETS.numbers ELSE <<>>)

(* generatePassword: the pool *)
Pool(options) ==
    (IF "upper" \in options THEN CHARSETS.upper ELSE <<>>)
    \o (IF "lower" \in options THEN CHARSETS.lower ELSE <<>>)
    \o (IF "numbers" \in options THEN CHARSETS.numbers ELSE <<>>)
    \o (IF "symbols" \in options THEN CHARSETS.symbols ELSE <<>>)

(* array[i] % pool.length *)
RandomIndex(v, n) == ((v[1] % n) * (Half16 % n) + (v[2] % n)) % n

(* generatePassword(length, options), array being what                     *)
(* crypto.getRandomValues has put into the Uint32Array(length)             *)
GeneratePassword(length, options, array) ==
    LET pool == Pool(options)
        result == [i \in 1..length |-> pool[RandomIndex(array[i], Len(pool)) + 1]]
    IN IF pool = <<>>
       THEN [threw |-> TRUE, password |-> <<>>, strength |-> "", poolSize |-> 0]
       ELSE [threw |-> FALSE, password |-> result,
             strength |-> EvaluateStrength(result, Len(pool)),
             poolSize |-> Len(pool)]

(* Values of the random source: the least, the greatest, and two between. *)
Samples == << <<0, 0>>, <<0, 25>>, <<4660, 22136>>, <<Half16 - 1, Half16 - 1>> >>

(* Arrays of the given length over Samples: position i holds sample        *)
(* a * i + b, counted round.                                               *)
Arrays(length) ==
    { [i \in 1..length |-> Samples[((a * i + b) % Len(Samples)) + 1]] :
        a \in 0..(Len(Samples) - 1), b \in 0..(Len(Samples) - 1) }

(* Values posted as length: around both bounds, whole and not. *)
ServiceLengths ==
    {Whole(n) : n \in {MinLength - 1, MinLength, DefaultLength, MaxLength,
                       MaxLength + 1}}
    \cup {Half(n) : n \in {MinLength - 1, MinLength, MaxLength - 1, MaxLength}}
    \cup {Text(DefaultLength)}

(* The service keeps no state, so what a call returns depends on its      *)
(* arguments alone: a behaviour calls it once.                             *)
ServiceValidate ==
    /\ call = NoCall
    /\ \E length \in ServiceLengths, options \in SUBSET Flags :
         call' = [op |-> "validate", length |-> length, options |-> options,
                  array |-> <<>>,
                  res |-> ValidateOptions(length, options)]
    /\ UNCHANGED <<db, nextId, store, isConnected, now, req, last, nOps>>

ServiceGenerate ==
    /\ call = NoCall
    /\ \E n \in MinLength..MaxLength, options \in SUBSET Flags :
         \E array \in Arrays(n) :
           call' = [op |-> "generate", length |-> Whole(n), options |-> options,
                    array |-> array,
                    res |-> GeneratePassword(n, options, array)]
    /\ UNCHANGED <<db, nextId, store, isConnected, now, req, last, nOps>>

(* Bodies posted to /generate that validateOptions refuses, one for each   *)
(* of its checks and each kind of length.                                  *)
ServiceBodies ==
    { [length |-> Half(DefaultLength), options |-> Flags],
      [length |-> Text(DefaultLength), options |-> Flags],
      [length |-> Whole(MinLength - 1), options |-> Flags],
      [length |-> Whole(MaxLength + 1), options |-> Flags],
      [length |-> Whole(DefaultLength), options |-> {}] }

NextService ==
    \/ ServiceValidate
    \/ ServiceGenerate
    \/ \E r \in Slots, body \in ServiceBodies : GenArrive(r, body)

SpecService == Init /\ [][NextService]_vars

---------------------------------------------------------------------------
(* The methods of RedisClient called one at a time, on any key, with the   *)
(* connection up or down and the client call succeeding or failing.  call  *)
(* records the last call: its result, whether it raised, and whether it    *)
(* left the keyspace as it was.                                            *)

StoreKeys == {CountKey, TodayKey, StatsAllKey, MwKey("stats", <<>>)}

StorePatterns == {CachePattern, StatsPattern, AllPattern}

StoreValues == {FreshBody(<<>>, "stats", <<>>), ErrorBody("x")}

Called(op, conn, ok, o) ==
    /\ call' = [op |-> op, conn |-> conn, ok |-> ok, res |-> o.res,
                threw |-> o.threw, same |-> (o.store = store)]
    /\ store' = o.store
    /\ UNCHANGED <<db, nextId, isConnected, now, req, last, nOps>>

StoreGet ==
    \E key \in StoreKeys, ok \in BOOLEAN :
        Called("get", isConnected, ok, RedisGet(store, key, isConnected, ok))

StoreSet ==
    \E key \in {StatsAllKey, MwKey("stats", <<>>)}, v \in StoreValues,
       ok \in BOOLEAN :
        Called("set", isConnected, ok,
               RedisSet(store, key, v, MwTtlStats, now, isConnected, ok))

StoreDel ==
    \E key \in StoreKeys, ok \in BOOLEAN :
        Called("del", isConnected, ok, RedisDel(store, key, isConnected, ok))

StoreDelPattern ==
    \E pattern \in StorePatterns, ok1 \in BOOLEAN, ok2 \in BOOLEAN :
        Called("delPattern", isConnected, ok1 /\ ok2,
               DelPattern(store, pattern, isConnected, ok1, ok2))

StoreExists ==
    \E key \in StoreKeys, ok \in BOOLEAN :
        Called("exists", isConnected, ok, RedisExists(store, key, isConnected, ok))

StoreIncr ==
    \E key \in {CountKey, TodayKey}, ok \in BOOLEAN :
        /\ Has(store, key) => Parse(store[key].val) < MaxCount
        /\ Called("incr", isConnected, ok, RedisIncr(store, key, isConnected, ok))

StoreTtl ==
    \E key \in StoreKeys, ok \in BOOLEAN :
        Called("ttl", isConnected, ok, RedisTtl(store, key, now, isConnected, ok))

NextStore ==
    \/ StoreGet
    \/ StoreSet
    \/ StoreDel
    \/ StoreDelPattern
    \/ StoreExists
    \/ StoreIncr
    \/ StoreTtl
    \/ OnReady
    \/ OnErrorOrEnd
    \/ Tick

SpecStore == Init /\ [][NextStore]_vars

---------------------------------------------------------------------------
(* Properties. *)

AnsweredGet(r) == req[r].pc = "done" /\ req[r].kind = "get"

(* The store was ready at every look of the request and every command it  *)
(* sent succeeded.                                                         *)
AllReady(rq) == ~rq.sawDown

(* A payload without its cached marker. *)
Body(p) == [k \in DOMAIN p \ {"cached"} |-> p[k]]

ViewKeys(s) ==
    {k \in DOMAIN s : \/ GlobMatch(CachePattern, k)
                      \/ GlobMatch(HistoryPattern, k)
                      \/ GlobMatch(StatsPattern, k)}

(* C1: with the store ready, the first GET of a view after a successful    *)
(* generate has responded is answered by a fresh read of the record store  *)
(* (which holds the new record), not by a payload cached before it; the    *)
(* record store itself answers every read.                                 *)
C1_FreshAfterGenerate ==
    \A r \in Slots :
        ( /\ AnsweredGet(r)
          /\ AllReady(req[r])
          /\ ~req[r].dbFail
          /\ last.kind = "generate"
          /\ last.status = 201
          /\ AllReady(last) )
        => /\ req[r].dbRead
           /\ req[r].resp.v = FreshBody(db, req[r].route, req[r].query)

(* C2: with the store ready, once a delete-by-id that found its record has *)
(* responded, no entry under 'cache:', 'history:' or 'stats:' is left.     *)
C2_DeleteInvalidatesViews ==
    \A r \in Slots :
        ( /\ req[r].pc = "done"
          /\ req[r].kind = "delete"
          /\ req[r].status = 200
          /\ AllReady(req[r]) )
        => ViewKeys(store) = {}

C2_Witness ==
    \E r \in Slots :
        /\ req[r].pc = "done"
        /\ req[r].kind = "delete"
        /\ req[r].status = 200
        /\ AllReady(req[r])
        /\ \E k \in req[r].cleared : GlobMatch(CachePattern, k)
        /\ \E k \in req[r].cleared : ~GlobMatch(CachePattern, k)

(* C3: with the store ready, once a clear-all has responded the store      *)
(* holds no key at all: no cache entry, and neither generation counter.    *)
C3_ClearAllEmptiesStore ==
    \A r \in Slots :
        ( /\ req[r].pc = "done"
          /\ req[r].kind = "clear"
          /\ req[r].status = 200
          /\ AllReady(req[r]) )
        => /\ DOMAIN store = {}
           /\ RedisGet(store, CountKey, TRUE, TRUE).res = None
           /\ RedisGet(store, TodayKey, TRUE, TRUE).res = None

C3_Witness ==
    \E r \in Slots :
        /\ req[r].pc = "done"
        /\ req[r].kind = "clear"
        /\ req[r].status = 200
        /\ AllReady(req[r])
        /\ CountKey \in req[r].cleared
        /\ \E k \in req[r].cleared : GlobMatch(HistoryPattern, k)

(* C4: when the middleware finds an entry under the request's key, the     *)
(* response is the stored payload with cached: true, with status 200, and  *)
(* neither the handler nor the record store is invoked.                    *)
C4_HitServesStored ==
    \A r \in Slots :
        /\ ( /\ req[r].pc = "mw_get"
             /\ ~req[r].got.nil
             /\ ~req[r].expired )
           => /\ Has(store, req[r].mwKey)
              /\ Parse(store[req[r].mwKey].val) = req[r].got.v
        /\ (AnsweredGet(r) /\ ~req[r].mwGot.nil)
           => /\ req[r].status = 200
              /\ req[r].resp.v = AddCached(req[r].mwGot.v)
              /\ req[r].resp.v["cached"] = TRUE
              /\ Body(req[r].resp.v) = Body(req[r].mwGot.v)
              /\ ~req[r].handler
              /\ ~req[r].dbRead

C4_Witness ==
    \E r \in Slots :
        /\ AnsweredGet(r)
        /\ ~req[r].mwGot.nil
        /\ ~HasCached(req[r].mwGot.v)

(* C5: two identical GETs of a wrapped route, one after the other, both    *)
(* with the store ready and answered 200, with no expiry from the arrival  *)
(* of the first on: the second returns the payload of the first and        *)
(* carries cached: true.                                                   *)
C5_SecondGetIsCached ==
    \A r \in Slots :
        ( /\ AnsweredGet(r)
          /\ req[r].status = 200
          /\ AllReady(req[r])
          /\ last.kind = "get"
          /\ last.status = 200
          /\ AllReady(last)
          /\ last.route = req[r].route
          /\ last.query = req[r].query
          /\ ~last.expired
          /\ ~req[r].expired )
        => /\ Body(req[r].resp.v) = Body(last.resp.v)
           /\ HasCached(req[r].resp.v)
           /\ req[r].resp.v["cached"] = TRUE

C5_Witness ==
    \E r \in Slots :
        /\ AnsweredGet(r)
        /\ req[r].status = 200
        /\ AllReady(req[r])
        /\ last.kind = "get"
        /\ last.status = 200
        /\ AllReady(last)
        /\ last.route = req[r].route
        /\ last.query = req[r].query
        /\ ~last.expired
        /\ ~req[r].expired
        /\ ~HasCached(last.resp.v)
        /\ ~req[r].mwGot.nil

Responds(r) == req[r].pc # "done" /\ req'[r].pc = "done"

(* C6: after a middleware miss, the write of the body under the request's  *)
(* key is issued if and only if the handler responds with status 200; a    *)
(* response with another status leaves the store as it is, and a 200 with  *)
(* the store ready leaves the body under the key with the route's TTL.     *)
C6_SetIffSuccess ==
    [][ \A r \in Slots :
          (Responds(r) /\ req'[r].wrapped)
          => /\ req'[r].mwSet <=> (req'[r].status = 200)
             /\ (req'[r].status # 200) => (store' = store)
             /\ (req'[r].status = 200 /\ AllReady(req'[r]))
                => /\ Has(store', req'[r].mwKey)
                   /\ store'[req'[r].mwKey] =
                        [val |-> Stringify(req'[r].resp.v),
                         exp |-> now + MwTtl(req'[r].route)] ]_vars

C6_Witness ==
    \E r \in Slots :
        /\ AnsweredGet(r)
        /\ req[r].wrapped
        /\ req[r].status = 500
        /\ ~req[r].mwSet
        /\ ~Has(store, req[r].mwKey)

(* C7 as claimed: on a middleware miss the response is the handler's       *)
(* output and carries no cached marker, and neither does the payload       *)
(* stored under the middleware's key.                                      *)
C7_MissCarriesNoMarker ==
    \A r \in Slots :
        (AnsweredGet(r) /\ req[r].wrapped)
        => /\ req[r].resp = req[r].hout
           /\ ~HasCached(req[r].resp.v)
           /\ Has(store, req[r].mwKey)
              => ~HasCached(Parse(store[req[r].mwKey].val))

(* C7 as amended: on a middleware miss the response is the handler's       *)
(* output unchanged, and with the store ready a 200 body is stored under   *)
(* the middleware's key exactly as sent; the middleware adds no marker, so *)
(* response and stored payload carry cached: true exactly when the handler *)
(* answered from its own key.                                              *)
C7_MissPassesHandlerOutput ==
    \A r \in Slots :
        (AnsweredGet(r) /\ req[r].wrapped)
        => /\ req[r].resp = req[r].hout
           /\ HasCached(req[r].resp.v) <=> req[r].ctrlHit
           /\ (req[r].status = 200 /\ AllReady(req[r]) /\ ~req[r].expired)
              => /\ Has(store, req[r].mwKey)
                 /\ Parse(store[req[r].mwKey].val) = req[r].resp.v

C7_Witness ==
    \E r \in Slots :
        /\ AnsweredGet(r)
        /\ req[r].wrapped
        /\ req[r].ctrlHit
        /\ AllReady(req[r])
        /\ Has(store, req[r].mwKey)
        /\ HasCached(Parse(store[req[r].mwKey].val))

(* C8: a request that never sees the store ready is served without it: a   *)
(* GET is answered 200 by a fresh read of the record store with no cached  *)
(* marker, a generate that passes validation is answered 201, a delete     *)
(* and a clear-all 200 (404 for a delete of an absent record), and the     *)
(* only server error is a failure of the record store.                     *)
C8_DegradedMode ==
    \A r \in Slots :
        (req[r].pc = "done" /\ ~req[r].sawReady)
        => /\ req[r].status = 500 <=> req[r].dbFail
           /\ (req[r].kind = "get" /\ ~req[r].dbFail)
              => /\ req[r].status = 200
                 /\ req[r].dbRead
                 /\ ~req[r].wrapped
                 /\ req[r].mwGot.nil
                 /\ ~req[r].ctrlHit
                 /\ ~req[r].mwSet
                 /\ req[r].resp.v = FreshBody(db, req[r].route, req[r].query)
                 /\ ~HasCached(req[r].resp.v)
           /\ (req[r].kind = "generate" /\ ~req[r].dbFail)
              => req[r].status = IF req[r].id # 0 THEN 201 ELSE 400
           /\ (req[r].kind = "delete" /\ ~req[r].dbFail)
              => req[r].status = IF req[r].found THEN 200 ELSE 404
           /\ (req[r].kind = "clear" /\ ~req[r].dbFail)
              => req[r].status = 200

C8_Witness ==
    \E r \in Slots :
        /\ AnsweredGet(r)
        /\ ~req[r].sawReady
        /\ req[r].status = 200
        /\ Has(store, CtrlKey(req[r].route, req[r].query))
        /\ Parse(store[CtrlKey(req[r].route, req[r].query)].val) # req[r].resp.v
        /\ last.kind = "generate"

(* The parameters of a query, whatever their order. *)
Params(q) == {q[i] : i \in 1..Len(q)}

(* C10: two GETs of a wrapped route with the same parameter values derive  *)
(* the same middleware key whatever the order of the parameters, so that   *)
(* the second hits the entry the first populated.                          *)
C10_KeyIgnoresParamOrder ==
    \A r \in Slots :
        ( /\ req[r].kind = "get"
          /\ req[r].mwKey # <<>>
          /\ last.kind = "get"
          /\ last.mwKey # <<>>
          /\ last.route = req[r].route
          /\ Params(last.query) = Params(req[r].query) )
        => /\ req[r].mwKey = last.mwKey
           /\ ( /\ req[r].pc = "done"
                /\ AllReady(req[r])
                /\ AllReady(last)
                /\ last.status = 200
                /\ ~last.expired
                /\ ~req[r].expired )
              => ~req[r].mwGot.nil

(* C9: a method of RedisClient called with the store unreachable, or whose *)
(* client call fails, does not raise, returns its default (get null,       *)
(* exists false, incr 0, ttl -1) and leaves the keyspace as it was; no     *)
(* method raises in any case.                                              *)
C9_StoreDefaults ==
    (call.op # "none")
    => /\ ~call.threw
       /\ (~call.conn \/ ~call.ok)
          => /\ call.same
             /\ call.op = "get" => call.res = None
             /\ call.op = "exists" => call.res = FALSE
             /\ call.op = "incr" => call.res = 0
             /\ call.op = "ttl" => call.res = -1

C9_Witness ==
    /\ call.op = "incr"
    /\ call.conn
    /\ ~call.ok
    /\ call.res = 0
    /\ call.same
    /\ Has(store, CountKey)

(* C11: with the store ready, a GET of a wrapped route that has gone       *)
(* through the middleware has added one to the total-requests counter and  *)
(* one to the hit counter (served by the middleware) or to the miss        *)
(* counter (passed to the handler), so the total is at least 1 and equals  *)
(* hits + misses.                                                          *)
C11_CountersCountInvocations ==
    \A r \in Slots :
        ( /\ AnsweredGet(r)
          /\ req[r].mwKey # <<>>
          /\ AllReady(req[r])
          /\ ~req[r].expired )
        => /\ CounterValue(store, TotalRequestsKey) >= 1
           /\ CounterValue(store, HitsKey) + CounterValue(store, MissesKey)
                = CounterValue(store, TotalRequestsKey)
           /\ ~req[r].mwGot.nil => CounterValue(store, HitsKey) >= 1
           /\ req[r].mwGot.nil => CounterValue(store, MissesKey) >= 1

AnsweredReport(r) ==
    /\ req[r].pc = "done"
    /\ req[r].kind = "cachestats"
    /\ req[r].status = 200
    /\ AllReady(req[r])

(* hits / (hits + misses) * 100 with two decimals and '%'; "0.00%" when    *)
(* nothing was counted.                                                    *)
RateOf(hits, misses) ==
    IF hits + misses = 0 THEN "0.00%" ELSE ToFixed2(hits, hits + misses) \o "%"

(* C12: with the store ready, the hit rate of a cache-stats report is      *)
(* hits / (hits + misses) * 100 of the counters it reports, with two       *)
(* decimals and '%'; and a report that follows a GET served by a           *)
(* middleware hit counts that hit, so its hit rate is not "0.00%".         *)
C12_HitRateReported ==
    \A r \in Slots :
        AnsweredReport(r)
        => LET st == req[r].resp.v.data.statistics
           IN /\ st.hitRate = RateOf(st.cacheHits, st.cacheMisses)
              /\ (last.kind = "get" /\ last.hit /\ AllReady(last))
                 => /\ st.cacheHits >= 1
                    /\ st.hitRate # "0.00%"

(* No generate is between its arrival and its response. *)
NoGenerateInFlight(rqs) ==
    \A r \in Slots : ~(rqs[r].kind = "generate" /\ rqs[r].pc # "done")

NextMidnight(t) == DaySeconds * ((t \div DaySeconds) + 1)

(* C13: with the store ready a generate answered 201 has incremented the   *)
(* daily counter; whenever no generate is in flight the daily counter, if  *)
(* present, expires at the next local midnight; and once the clock has     *)
(* crossed midnight the counter is gone (reads 0).                         *)
C13_DailyCounterExpires ==
    [][ /\ \A r \in Slots :
             ( /\ Responds(r)
               /\ req'[r].kind = "generate"
               /\ req'[r].status = 201
               /\ AllReady(req'[r]) )
             => CounterValue(store', TodayKey) >= 1
        /\ (NoGenerateInFlight(req') /\ Has(store', TodayKey))
           => store'[TodayKey].exp = NextMidnight(now')
        /\ (NoGenerateInFlight(req') /\ now' > now)
           => CounterValue(store', TodayKey) = 0 ]_vars

Persisted(rq) ==
    \/ rq.kind = "generate" /\ rq.id # 0 /\ ~rq.dbFail
    \/ rq.kind = "delete" /\ rq.found
    \/ rq.kind = "clear" /\ ~rq.dbFail

SuccessStatus(kind) == IF kind = "generate" THEN 201 ELSE 200

C16_TelemetryFailureSwallowed ==
    \A r \in Slots :
        (req[r].pc = "done" /\ req[r].kind = "generate" /\ Persisted(req[r]))
        => /\ req[r].status = 201
           /\ "data" \in DOMAIN req[r].resp.v

(* What the specification says of validate(length, options). *)
Refused(length, options) ==
    \/ length.type # "number" \/ length.frac
    \/ length.n < MinLength
    \/ length.n > MaxLength
    \/ options \cap Flags = {}

(* C17: validateOptions(length, options) fails exactly when length is not  *)
(* an integer, or is below 4, or is above 64, or no option flag is on, and *)
(* succeeds otherwise; a generate request that fails validation is         *)
(* answered 400 with the validation error.                                 *)
C17_Validation ==
    /\ call.op = "validate"
       => (call.res.valid <=> ~Refused(call.length, call.options))
    /\ \A r \in Slots :
         (req[r].pc = "done" /\ req[r].kind = "generate" /\ req[r].id = 0)
         => /\ req[r].status = 400
            /\ ~req[r].resp.v.success

C17_Witness ==
    /\ call.op = "validate"
    /\ call.length = Whole(MaxLength + 1)
    /\ call.options = Flags
    /\ ~call.res.valid
    /\ \E r \in Slots :
         /\ req[r].pc = "done"
         /\ req[r].kind = "generate"
         /\ req[r].status = 400
         /\ req[r].resp.v.error = "Length must be an integer"

(* The characters of the charsets the option flags select, and how many    *)
(* the charsets hold together.                                             *)
Selected(options) ==
    UNION { {CHARSETS[f][i] : i \in 1..Len(CHARSETS[f])} : f \in options }

RECURSIVE SizeSum(_)
SizeSum(options) ==
    IF options = {} THEN 0
    ELSE LET f == CHOOSE g \in options : TRUE
         IN Len(CHARSETS[f]) + SizeSum(options \ {f})

(* C18: for a length in 4..64 and at least one flag on, whatever the       *)
(* random source has drawn, generatePassword returns exactly length        *)
(* characters, each from the union of the selected charsets, and reports   *)
(* as poolSize the sum of the sizes of the selected charsets.              *)
C18_Generation ==
    (call.op = "generate" /\ call.options # {})
    => /\ ~call.res.threw
       /\ Len(call.res.password) = call.length.n
       /\ \A i \in 1..Len(call.res.password) :
            call.res.password[i] \in Selected(call.options)
       /\ call.res.poolSize = SizeSum(call.options)

C18_Witness ==
    /\ call.op = "generate"
    /\ call.length = Whole(MaxLength)
    /\ call.options = {"numbers", "symbols"}
    /\ call.res.poolSize = 31
    /\ Len(call.res.password) = MaxLength
    /\ \E i, j \in 1..MaxLength :
         /\ call.res.password[i] = "0"
         /\ call.res.password[j] = "]"

(* Weak, Medium or Strong from length * log2(poolSize) alone. *)
Classify(length, poolSize) ==
    IF EntropyBelow(length, poolSize, 40) THEN "Weak"
    ELSE IF EntropyBelow(length, poolSize, 60) THEN "Medium"
    ELSE "Strong"

(* C19: the strength generatePassword reports is that of (length,          *)
(* poolSize), whatever characters were drawn: Weak when                    *)
(* length * log2(poolSize) < 40, Medium when it is at least 40 and below   *)
(* 60, Strong otherwise; length 12 with pool size 62 is Strong, length 8   *)
(* with pool size 10 is Weak.                                              *)
C19_Strength ==
    (call.op = "generate" /\ call.options # {})
    => /\ call.res.strength = Classify(call.length.n, SizeSum(call.options))
       /\ (call.length.n = 12 /\ SizeSum(call.options) = 62)
          => call.res.strength = "Strong"
       /\ (call.length.n = 8 /\ SizeSum(call.options) = 10)
          => call.res.strength = "Weak"

(* A Weak result whose characters are not all the same: 8 digits. *)
C19_Witness ==
    /\ call.op = "generate"
    /\ call.length.n = 8
    /\ call.options = {"numbers"}
    /\ call.res.poolSize = 10
    /\ call.res.strength = "Weak"
    /\ call.res.password[1] # call.res.password[2]

(* How many of the 2^32 values of a Uint32 array[i] % n sends to index j:  *)
(* 2^32 = q * n + r, the values below q * n go q to each index, the r      *)
(* values from q * n on go to the indices 0..r-1.                          *)
Preimages(j, n) ==
    LET q == Half16 * (Half16 \div n) + (Half16 * (Half16 % n)) \div n
        r == (Half16 * (Half16 % n)) % n
    IN q + (IF j < r THEN 1 ELSE 0)

(* C20: for the pool of a generate call, array[i] % pool.length sends the  *)
(* same number of Uint32 values to every index of the pool.                *)
C20_UnbiasedSampling ==
    (call.op = "generate" /\ call.options # {})
    => \A j, k \in 0..(call.res.poolSize - 1) :
           Preimages(j, call.res.poolSize) = Preimages(k, call.res.poolSize)

(* C21: a performance report whose measured cache read time is zero gives  *)
(* the speedup as 'N/A'.                                                   *)
C21_ZeroCacheLatencyNotApplicable ==
    \A r \in Slots :
        ( /\ req[r].pc = "done"
          /\ req[r].kind = "performance"
          /\ req[r].status = 200
          /\ "performance" \in DOMAIN req[r].resp.v.data
          /\ req[r].resp.v.data.performance.cacheReadTime = Millis(0) )
        => req[r].resp.v.data.performance.speedup = "N/A"

(* The request was answered from a cache entry, the middleware's or the    *)
(* handler's.                                                              *)
FromCache(rq) == ~rq.mwGot.nil \/ rq.ctrlHit

(* C22: a view answered from the cache later than its TTL after time 0     *)
(* shows the record store as it has been since then: any other payload was *)
(* produced at time 0 or before and is served later than that time plus    *)
(* the TTL.                                                                *)
C22_BoundedStaleness ==
    [][ \A r \in Slots :
          ( /\ Responds(r)
            /\ req'[r].kind = "get"
            /\ req'[r].status = 200
            /\ FromCache(req'[r])
            /\ now > MwTtl(req'[r].route) )
          => Body(req'[r].resp.v) = FreshBody(db, req'[r].route, req'[r].query)
      ]_vars

(* What a GET of the view would be answered from holds what the record     *)
(* store holds: no entry of the view, the middleware's or the handler's,   *)
(* differs from a fresh read.                                              *)
ViewFresh(route) ==
    \A k \in {MwKey(route, <<>>), CtrlKey(route, <<>>)} :
        Has(store, k) => Body(Parse(store[k].val)) = FreshBody(db, route, <<>>)

C24_InvalidationOrdering ==
    [][ \A r \in Slots :
          LET mutation == req'[r].kind \in {"generate", "delete", "clear"}
          IN /\ ( /\ mutation
                  /\ req'[r].pc \in {"cc", "cc_keys"}
                  /\ req[r].pc \notin {"cc", "cc_keys"} )
                => (Persisted(req'[r]) /\ req'[r].pats # <<>>)
             /\ (mutation /\ req[r].pc = "cc_keys" /\ store' # store)
                => Persisted(req[r])
             /\ ( /\ mutation
                  /\ Responds(r)
                  /\ Persisted(req'[r])
                  /\ req'[r].status = SuccessStatus(req'[r].kind) )
                => /\ req[r].pats = <<>>
                   /\ req[r].pc # "cc_keys"
                   /\ req'[r].sawReady \/ req'[r].sawDown
      ]_vars

(* A delete-by-id answered 200 after its three patterns have removed keys. *)
C24_Witness ==
    \E r \in Slots :
        /\ req[r].pc = "done"
        /\ req[r].kind = "delete"
        /\ req[r].status = 200
        /\ req[r].cleared # {}
        /\ ~req[r].sawDown
        /\ ViewKeys(store) = {}

(* The mutation has failed: a generate refused by validateOptions or whose *)
(* save() failed, a delete whose findByIdAndDelete failed or found nothing. *)
FailedMutation(rq) ==
    \/ rq.kind = "generate" /\ (rq.id = 0 \/ rq.dbFail)
    \/ /\ rq.kind = "delete"
       /\ \/ rq.dbFail
          \/ rq.pc = "d_find" /\ rq.total = 0
          \/ rq.pc = "done" /\ ~rq.found

(* C25: every step of a failed mutation leaves the keyspace as it is and   *)
(* issues no command to the store, no invalidation among them; it is       *)
(* answered 400 (validation), 404 (delete of an absent record) or 500      *)
(* (record store failure).                                                 *)
C25_FailedMutationChangesNothing ==
    [][ \A r \in Slots :
          ( /\ nOps' # nOps \/ req'[r].pc # req[r].pc
            /\ FailedMutation(req'[r]) )
          => /\ store' = store
             /\ req'[r].pc \notin {"cc", "cc_keys"}
             /\ req'[r].pats = <<>>
             /\ req'[r].cleared = {}
             /\ ~req'[r].sawReady /\ ~req'[r].sawDown
             /\ Responds(r)
                => req'[r].status =
                     IF req'[r].dbFail THEN 500
                     ELSE IF req'[r].kind = "generate" THEN 400 ELSE 404
      ]_vars

(* A delete of an absent record answered 404 with the views still cached   *)
(* and the total counter still there.                                      *)
C25_Witness ==
    \E r \in Slots :
        /\ req[r].pc = "done"
        /\ req[r].kind = "delete"
        /\ req[r].status = 404
        /\ ViewKeys(store) # {}
        /\ CounterValue(store, CountKey) >= 1
        /\ isConnected

(* C26: a read that populates the cache after a miss never waits for its   *)
(* cache write: no request is held, its payload built and its write        *)
(* issued, until the write under the handler's key is acknowledged.        *)
C26_DecoupledCacheWrite ==
    \A r \in Slots :
        (req[r].kind = "get" /\ ~req[r].out.nil) => req[r].pc # "c_set"

(* C27: when delPattern's deletion step has succeeded, no key that matched *)
(* the pattern just before it is still there, whatever another request has *)
(* written since the keys were listed.                                     *)
C27_AtomicPatternDelete ==
    [][ \A r \in Racers :
          ( /\ req[r].pc = "cc_keys"
            /\ req'[r].pc = "cc"
            /\ ~req'[r].sawDown )
          => \A k \in DOMAIN store :
                 GlobMatch(Head(req[r].pats), k) => k \notin DOMAIN store'
      ]_vars

(* Two answered GETs of one key that have both missed in the middleware,  *)
(* the only two requests the server has had (the keyspace started empty). *)
BothMissed(r1, r2) ==
    /\ r1 # r2
    /\ nOps = 2
    /\ \A r \in {r1, r2} :
         /\ req[r].pc = "done"
         /\ req[r].kind = "get"
         /\ req[r].wrapped
         /\ req[r].mwGot.nil
    /\ req[r1].mwKey = req[r2].mwKey

(* C28: of two requests that have both missed on one key, each has gone    *)
(* through the handler, each has its complete response (what the handler   *)
(* gave), each one answered 200 has issued its write, and what is under    *)
(* the key is the whole payload of one of the two.                         *)
C28_NoSingleFlight ==
    \A r1, r2 \in Racers :
        BothMissed(r1, r2)
        => /\ \A r \in {r1, r2} :
                /\ req[r].handler
                /\ ~req[r].resp.nil
                /\ req[r].resp = req[r].hout
                /\ req[r].status = 200 => req[r].mwSet
           /\ Has(store, req[r1].mwKey)
              => Parse(store[req[r1].mwKey].val)
                     \in {req[r1].resp.v, req[r2].resp.v}

(* The two have run side by side: nothing else has arrived, the store has  *)
(* answered every command, both have read the record store and both have   *)
(* written.                                                                *)
C28_Witness ==
    /\ BothMissed(1, 2)
    /\ \A r \in Racers :
         /\ req[r].status = 200
         /\ ~req[r].sawDown
         /\ req[r].dbRead
         /\ req[r].mwSet
    /\ Has(store, req[1].mwKey)

(* The requests the server has had are all in their slots, all of them     *)
(* generates answered with the store ready at each of their looks and      *)
(* every command of theirs done: no clear-all has run.                     *)
OnlyGenerates ==
    LET arrived == {r \in Racers : req[r].kind # "none"}
    IN /\ Cardinality(arrived) = nOps
       /\ \A r \in arrived :
            /\ req[r].kind = "generate"
            /\ req[r].pc = "done"
            /\ ~req[r].sawDown

Succeeded == {r \in Racers : req[r].pc = "done" /\ req[r].status = 201}

(* C29: with the store ready throughout, the total counter is the number   *)
(* of generates answered 201 since the keyspace was last empty of it,      *)
(* however the generates interleave, and the only step that lowers the     *)
(* counter is a step of a clear-all.                                       *)
C29_TotalCounter ==
    [][ /\ OnlyGenerates' =>
             CounterValue(store', CountKey) = Cardinality(Succeeded')
        /\ CounterValue(store', CountKey) < CounterValue(store, CountKey)
           => \E r \in Racers : /\ req[r].kind = "clear"
                                /\ req'[r] # req[r]
      ]_vars

(* Two generates answered 201, both counted. *)
C29_Witness ==
    /\ OnlyGenerates
    /\ Succeeded = Racers
    /\ CounterValue(store, CountKey) = 2

(* The counters the manual clear is to keep. *)
KeptCounters == {CountKey, TodayKey, TotalRequestsKey, HitsKey, MissesKey}

(* A key the manual clear is to remove. *)
ViewKey(k) ==
    \/ GlobMatch(CachePattern, k)
    \/ GlobMatch(HistoryPattern, k)
    \/ k = StatsAllKey

C31_Readiness ==
    /\ [](isConnected <=> call.event = "ready")
    /\ [][ (call.socket = "closed" /\ call'.socket = "connecting")
           => ~isConnected ]_vars

(* An error has come after a request was served with the flag up. *)
C31_Witness ==
    /\ call.event = "error"
    /\ ~isConnected
    /\ \E r \in Slots : req[r].pc = "done" /\ req[r].sawReady /\ ~req[r].sawDown

====
